---- MODULE Spec2Model ----
(***************************************************************************)
(* Verification model of the earnings-alerts repository: the NYSE trading  *)
(* calendar (calendar.ts), the alert engine and the sent-alerts ledger     *)
(* (alerts.ts) and the daily run (main.ts).                                *)
(*                                                                         *)
(* Representation of values                                                *)
(*   Date     an integer count of ticks since 2025-01-01T00:00Z; a day is  *)
(*            TicksPerDay ticks, so a Date carries a time of day.  The     *)
(*            process time zone is UTC (the scheduled deployment), so the  *)
(*            local calendar day of date-fns is the UTC calendar day.      *)
(*            Invalid Date, the Date whose time value is NaN, is the       *)
(*            number NaN, which lies outside every range of the model;     *)
(*            the operators on dates give it the results JavaScript and    *)
(*            date-fns give for it.                                        *)
(*   string   'yyyy-MM-dd' strings are triples <<year, month, day>>.       *)
(*   ticker   a string; toUpperCase is tabulated on the tickers used.      *)
(***************************************************************************)
EXTENDS Integers, Sequences, FiniteSets, TLC

\* ------------------------------------------------------------------------
\* Bounds of the model
\* ------------------------------------------------------------------------
TicksPerDay == 2
\* first calendar day (days since 2025-01-01) of the window of report dates
FirstReportDay == 16
\* number of calendar days in the window of report dates
NumReportDays == 6
\* "today" ranges from LeadDays before the first report day to the last one
LeadDays == 1
\* longest report list handed to a scan, longest threshold list
MaxReports == 2
MaxOffsets == 2
\* thresholds range over -1 .. MaxOffset
MaxOffset == 2
\* most records in the ledger, longest list handed to filterUnsentAlerts
MaxLedger == 2
MaxDue == 2
\* most rows in the earnings sheet, most clock ticks after the first instant
MaxSheet == 2
MaxTicks == 4

\* ------------------------------------------------------------------------
\* Arrays
\* ------------------------------------------------------------------------
Range(seq) == { seq[i] : i \in DOMAIN seq }

\* Array.prototype.map
Map(seq, Op(_)) == [ i \in DOMAIN seq |-> Op(seq[i]) ]

\* ------------------------------------------------------------------------
\* Dates (JavaScript Date, date-fns)
\* ------------------------------------------------------------------------
\* date.getUTCFullYear(), getUTCMonth(), getUTCDate() taken together: the UTC
\* calendar day, as days since 2025-01-01
NaN == -1000000

UTCDay(date) == IF date = NaN THEN NaN ELSE date \div TicksPerDay

\* new Date(Date.UTC(y, m, d)): midnight UTC of a calendar day
DateUTC(day) == IF day = NaN THEN NaN ELSE day * TicksPerDay

\* date-fns addDays: same time of day, n calendar days later
addDays(date, n) == IF date = NaN THEN NaN ELSE date + n * TicksPerDay

\* date-fns isSameDay / isBefore / isAfter / differenceInCalendarDays
\* (a comparison with NaN is false)
isSameDay(a, b) == a # NaN /\ b # NaN /\ UTCDay(a) = UTCDay(b)
isBefore(a, b) == a # NaN /\ b # NaN /\ a < b
isAfter(a, b) == a # NaN /\ b # NaN /\ a > b
differenceInCalendarDays(a, b) ==
    IF a = NaN \/ b = NaN THEN NaN ELSE UTCDay(a) - UTCDay(b)

\* date.getTime(), in ticks
getTime(date) == date

\* date.getUTCDay(): Sunday = 0 .. Saturday = 6; 2025-01-01 is a Wednesday
getUTCDay(date) == IF date = NaN THEN NaN ELSE (UTCDay(date) + 3) % 7

\* lengths of the months of 2025, 2026 and 2027 (no leap year among them)
DaysInMonth == <<31, 28, 31, 30, 31, 30, 31, 31, 30, 31, 30, 31>>

RECURSIVE MonthAndDay(_, _)
MonthAndDay(month, n) ==
    IF n < DaysInMonth[month]
    THEN <<month, n + 1>>
    ELSE MonthAndDay(month + 1, n - DaysInMonth[month])

\* the 'yyyy-MM-dd' string of a calendar day, as <<year, month, day>>
\* (of an invalid date: 'NaN-NaN-NaN')
YearMonthDay(day) ==
    IF day = NaN THEN <<NaN, NaN, NaN>>
    ELSE LET md == MonthAndDay(1, day % 365)
         IN  <<2025 + (day \div 365), md[1], md[2]>>

\* ------------------------------------------------------------------------
\* calendar.ts
\* ------------------------------------------------------------------------
NYSE_HOLIDAYS ==
    { <<2025, 1, 1>>, <<2025, 1, 20>>, <<2025, 2, 17>>, <<2025, 4, 18>>,
      <<2025, 5, 26>>, <<2025, 6, 19>>, <<2025, 7, 4>>, <<2025, 9, 1>>,
      <<2025, 11, 27>>, <<2025, 12, 25>>,
      <<2026, 1, 1>>, <<2026, 1, 19>>, <<2026, 2, 16>>, <<2026, 4, 3>>,
      <<2026, 5, 25>>, <<2026, 6, 19>>, <<2026, 7, 3>>, <<2026, 9, 7>>,
      <<2026, 11, 26>>, <<2026, 12, 25>> }

toDateString(date) == YearMonthDay(UTCDay(date))

isWeekend(date) == getUTCDay(date) = 0 \/ getUTCDay(date) = 6

isNYSEHoliday(date) == toDateString(date) \in NYSE_HOLIDAYS

\* isTradingDay without the holiday test
isTradingDay_WeekendsOnly(date) == ~isWeekend(date)

isTradingDay(date) ==
    IF isWeekend(date) THEN FALSE
    ELSE IF isNYSEHoliday(date) THEN FALSE
    ELSE TRUE

RECURSIVE NextLoop(_)
NextLoop(next) == IF isTradingDay(next) THEN next ELSE NextLoop(addDays(next, 1))

\* the loop of getNextTradingDay started on the date itself
getNextTradingDay_FromDate(date) == NextLoop(date)

getNextTradingDay(date) == NextLoop(addDays(date, 1))

RECURSIVE PrevLoop(_)
PrevLoop(prev) == IF isTradingDay(prev) THEN prev ELSE PrevLoop(addDays(prev, -1))

\* the loop of getPreviousTradingDay started on the date itself
getPreviousTradingDay_FromDate(date) == PrevLoop(date)

getPreviousTradingDay(date) == PrevLoop(addDays(date, -1))

\* getTradingDayOnOrBefore going forward, as getTradingDayOnOrAfter does
getTradingDayOnOrBefore_GoingForward(date) ==
    IF isTradingDay(date) THEN date ELSE getNextTradingDay(date)

getTradingDayOnOrBefore(date) ==
    IF isTradingDay(date) THEN date ELSE getPreviousTradingDay(date)

RECURSIVE CountLoop(_, _, _, _)
CountLoop(current, toNorm, isForward, count) ==
    IF (IF isForward THEN ~isAfter(current, toNorm) ELSE ~isBefore(current, toNorm))
    THEN CountLoop(IF isForward THEN addDays(current, 1) ELSE addDays(current, -1),
                   toNorm, isForward,
                   IF isTradingDay(current) THEN count + 1 ELSE count)
    ELSE count

\* tradingDaysUntil counting from the start date itself
tradingDaysUntil_StartIncluded(from, to) ==
    LET fromNorm == DateUTC(UTCDay(from))
        toNorm == DateUTC(UTCDay(to))
        isForward == isBefore(fromNorm, toNorm)
        count == CountLoop(fromNorm, toNorm, isForward, 0)
    IN  IF isSameDay(fromNorm, toNorm) THEN 0
        ELSE IF isForward THEN count ELSE -count

tradingDaysUntil(from, to) ==
    LET fromNorm == DateUTC(UTCDay(from))
        toNorm == DateUTC(UTCDay(to))
        isForward == isBefore(fromNorm, toNorm)
        count == CountLoop(IF isForward THEN addDays(fromNorm, 1) ELSE addDays(fromNorm, -1),
                           toNorm, isForward, 0)
    IN  IF isSameDay(fromNorm, toNorm) THEN 0
        ELSE IF isForward THEN count ELSE -count

\* ------------------------------------------------------------------------
\* alerts.ts: alert date calculation and the scan for due alerts
\* ------------------------------------------------------------------------
\* determineAlertDate alerting the day before whatever the session
determineAlertDate_AlwaysDayBefore(report) ==
    getTradingDayOnOrBefore(getPreviousTradingDay(report.reportDate))

\* determineAlertDate without the final adjustment to a trading day
determineAlertDate_NotAdjusted(report) ==
    IF report.timeOfDay = "postmarket"
    THEN DateUTC(UTCDay(report.reportDate))
    ELSE getPreviousTradingDay(report.reportDate)

determineAlertDate(report) ==
    LET reportDate == report.reportDate
        alertDate == IF report.timeOfDay = "postmarket"
                     THEN DateUTC(UTCDay(reportDate))
                     ELSE getPreviousTradingDay(reportDate)
    IN  getTradingDayOnOrBefore(alertDate)

\* the loop going back one trading day however many are asked
BackLoop_OneStep(date, daysBack) ==
    IF daysBack > 0 THEN getPreviousTradingDay(date) ELSE date

RECURSIVE BackLoop(_, _)
BackLoop(date, daysBack) ==
    IF daysBack > 0 THEN BackLoop(getPreviousTradingDay(date), daysBack - 1) ELSE date

determineAlertDateWithOffset(report, tradingDaysBefore) ==
    LET baseAlertDate == determineAlertDate(report)
    IN  IF tradingDaysBefore <= 0 THEN baseAlertDate
        ELSE BackLoop(baseAlertDate, tradingDaysBefore)

\* the threshold loop giving up after the first threshold of the list
ThresholdLoop_FirstOnly(report, todayNorm, alertDaysBefore, i) ==
    IF i > Len(alertDaysBefore) THEN <<>>
    ELSE LET alertDate == determineAlertDateWithOffset(report, alertDaysBefore[i])
         IN  IF isSameDay(alertDate, todayNorm)
             THEN << [ report |-> report,
                       alertDate |-> alertDate,
                       daysUntilReport |->
                           differenceInCalendarDays(report.reportDate, todayNorm) ] >>
             ELSE <<>>

\* the threshold loop without the break after a match
RECURSIVE ThresholdLoop_NoBreak(_, _, _, _)
ThresholdLoop_NoBreak(report, todayNorm, alertDaysBefore, i) ==
    IF i > Len(alertDaysBefore) THEN <<>>
    ELSE LET alertDate == determineAlertDateWithOffset(report, alertDaysBefore[i])
         IN  (IF isSameDay(alertDate, todayNorm)
              THEN << [ report |-> report,
                        alertDate |-> alertDate,
                        daysUntilReport |->
                            differenceInCalendarDays(report.reportDate, todayNorm) ] >>
              ELSE <<>>)
             \o ThresholdLoop_NoBreak(report, todayNorm, alertDaysBefore, i + 1)

\* the inner loop of findDueAlerts over the thresholds, from index i on: the
\* alerts pushed for one report (none, or one and then break)
RECURSIVE ThresholdLoop(_, _, _, _)
ThresholdLoop(report, todayNorm, alertDaysBefore, i) ==
    IF i > Len(alertDaysBefore) THEN <<>>
    ELSE LET alertDate == determineAlertDateWithOffset(report, alertDaysBefore[i])
         IN  IF isSameDay(alertDate, todayNorm)
             THEN << [ report |-> report,
                       alertDate |-> alertDate,
                       daysUntilReport |->
                           differenceInCalendarDays(report.reportDate, todayNorm) ] >>
             ELSE ThresholdLoop(report, todayNorm, alertDaysBefore, i + 1)

\* the outer loop of findDueAlerts over the reports, from index i on
RECURSIVE ReportLoop(_, _, _, _)
ReportLoop(reports, todayNorm, alertDaysBefore, i) ==
    IF i > Len(reports) THEN <<>>
    ELSE ThresholdLoop(reports[i], todayNorm, alertDaysBefore, 1)
             \o ReportLoop(reports, todayNorm, alertDaysBefore, i + 1)

\* an insertion that puts the alert before those of the same report date
RECURSIVE InsertByReportDate_BeforeEqual(_, _)
InsertByReportDate_BeforeEqual(sorted, a) ==
    IF sorted = <<>> THEN <<a>>
    ELSE IF getTime(Head(sorted).report.reportDate) - getTime(a.report.reportDate) < 0
         THEN <<Head(sorted)>> \o InsertByReportDate_BeforeEqual(Tail(sorted), a)
         ELSE <<a>> \o sorted

\* Array.prototype.sort with the comparator a.report.reportDate.getTime() -
\* b.report.reportDate.getTime(): a stable sort, here by insertion
RECURSIVE InsertByReportDate(_, _)
InsertByReportDate(sorted, a) ==
    IF sorted = <<>> THEN <<a>>
    ELSE IF getTime(Head(sorted).report.reportDate) - getTime(a.report.reportDate) <= 0
         THEN <<Head(sorted)>> \o InsertByReportDate(Tail(sorted), a)
         ELSE <<a>> \o sorted

RECURSIVE SortByReportDate(_)
SortByReportDate(alerts) ==
    IF alerts = <<>> THEN <<>>
    ELSE InsertByReportDate(SortByReportDate(SubSeq(alerts, 1, Len(alerts) - 1)),
                            alerts[Len(alerts)])

findDueAlerts(reports, today, alertDaysBefore) ==
    LET todayNorm == DateUTC(UTCDay(today))
    IN  SortByReportDate(ReportLoop(reports, todayNorm, alertDaysBefore, 1))

\* date-fns format throws a RangeError on an invalid date
formatThrows(date) == date = NaN

\* findDueAlerts formatting the report date before the test of the alert date
findDueAlertsThrows_FormatFirst(reports, today, alertDaysBefore) ==
    \E i \in DOMAIN reports :
        formatThrows(reports[i].reportDate) /\ Len(alertDaysBefore) > 0

\* whether findDueAlerts throws: it formats the report date of every alert
\* it pushes
findDueAlertsThrows(reports, today, alertDaysBefore) ==
    \E i \in DOMAIN reports :
        /\ formatThrows(reports[i].reportDate)
        /\ \E j \in DOMAIN alertDaysBefore :
               isSameDay(determineAlertDateWithOffset(reports[i], alertDaysBefore[j]),
                         DateUTC(UTCDay(today)))

\* ------------------------------------------------------------------------
\* alerts.ts: the ledger of sent alerts (data/sent-alerts.json)
\*
\* The file is [kind, records]: kind "missing" before the first save, kind
\* "array" when it holds a JSON array, whose elements are records, kind
\* "unreadable" when readFileSync fails, kind "invalidJSON" when JSON.parse
\* fails, kind "notArray" when it holds a JSON value that is not an array
\* (records are then what that value holds).  A
\* SentAlert is [ticker, reportDate, sentAt], with the field alertDaysBefore
\* when markAlertSent was given a threshold.  An optional argument is <<>>
\* when undefined and <<k>> when given.
\* ------------------------------------------------------------------------
undefined == <<>>

\* date-fns format(date, 'yyyy-MM-dd'), in the UTC time zone of the process
format(date) == YearMonthDay(UTCDay(date))

\* toUpperCase leaving the ticker as it is
toUpperCase_AsIs(ticker) == ticker

\* String.prototype.toUpperCase, on the tickers of the model
toUpperCase(ticker) ==
    CASE ticker = "msft" -> "MSFT"
      [] ticker = "Msft" -> "MSFT"
      [] ticker = "aapl" -> "AAPL"
      [] OTHER -> ticker

MissingFile == [ kind |-> "missing", records |-> <<>> ]

\* loadSentAlerts returning what was parsed without the Array.isArray test
loadSentAlerts_NoArrayTest(file) ==
    IF file.kind \in {"missing", "unreadable", "invalidJSON"} THEN <<>>
    ELSE file.records

loadSentAlerts(file) ==
    IF file.kind = "missing" THEN <<>>
    ELSE IF file.kind # "array" THEN <<>>
    ELSE file.records

\* saveSentAlerts keeping a failed write to itself
saveSentAlertsThrows_Swallowed(writeOk) == FALSE

\* saveSentAlerts logs the error of a failed write and throws it again
saveSentAlertsThrows(writeOk) == ~writeOk

\* the file a successful saveSentAlerts leaves
saveSentAlerts(alerts) == [ kind |-> "array", records |-> alerts ]

hasAlertBeenSent(file, ticker, reportDate, alertDaysBefore) ==
    LET sentAlerts == loadSentAlerts(file)
        reportDateStr == format(reportDate)
        tickerUpper == toUpperCase(ticker)
        Some(alert) ==
            LET matchesTicker == toUpperCase(alert.ticker) = tickerUpper
                matchesDate == alert.reportDate = reportDateStr
            IN  IF alertDaysBefore # undefined /\ "alertDaysBefore" \in DOMAIN alert
                THEN matchesTicker /\ matchesDate
                         /\ alert.alertDaysBefore = alertDaysBefore[1]
                ELSE matchesTicker /\ matchesDate
    IN  \E i \in DOMAIN sentAlerts : Some(sentAlerts[i])

\* markAlertSent putting the new record first
markAlertSent_Unshift(file, ticker, reportDate, alertDaysBefore, clock) ==
    LET sentAlerts == loadSentAlerts(file)
        newAlert == [ ticker |-> toUpperCase(ticker),
                      reportDate |-> format(reportDate),
                      sentAt |-> clock ]
    IN  <<newAlert>> \o sentAlerts

\* the array markAlertSent hands to saveSentAlerts
markAlertSent(file, ticker, reportDate, alertDaysBefore, clock) ==
    LET sentAlerts == loadSentAlerts(file)
        reportDateStr == format(reportDate)
        newAlert == [ ticker |-> toUpperCase(ticker),
                      reportDate |-> reportDateStr,
                      sentAt |-> clock ]
    IN  Append(sentAlerts,
               IF alertDaysBefore # undefined
               THEN [ ticker |-> newAlert.ticker,
                      reportDate |-> newAlert.reportDate,
                      sentAt |-> newAlert.sentAt,
                      alertDaysBefore |-> alertDaysBefore[1] ]
               ELSE newAlert)

filterUnsentAlerts(file, dueAlerts, alertDaysBefore) ==
    LET Keep(alert) ==
            LET alreadySent == hasAlertBeenSent(file, alert.report.ticker,
                                                alert.report.reportDate,
                                                alertDaysBefore)
            IN  ~alreadySent
    IN  SelectSeq(dueAlerts, Keep)

\* cleanupOldAlerts: cutoffDate.setDate(cutoffDate.getDate() - daysToKeep)
cutoffDate(clock, daysToKeep) == clock - daysToKeep * TicksPerDay

\* a filter that also drops the records sent exactly at the cutoff
filteredAlerts_StrictlyNewer(sentAlerts, daysToKeep, clock) ==
    LET Keep(alert) == alert.sentAt > cutoffDate(clock, daysToKeep)
    IN  SelectSeq(sentAlerts, Keep)

\* the array cleanupOldAlerts keeps out of the array it loaded
filteredAlerts(sentAlerts, daysToKeep, clock) ==
    LET Keep(alert) == alert.sentAt >= cutoffDate(clock, daysToKeep)
    IN  SelectSeq(sentAlerts, Keep)

\* cleanupOldAlerts saves only when it removed something
cleanupSaves(sentAlerts, daysToKeep, clock) ==
    Len(filteredAlerts(sentAlerts, daysToKeep, clock)) < Len(sentAlerts)

\* the number cleanupOldAlerts returns
cleanupOldAlerts(file, daysToKeep, clock) ==
    LET sentAlerts == loadSentAlerts(file)
    IN  Len(sentAlerts) - Len(filteredAlerts(sentAlerts, daysToKeep, clock))

\* ------------------------------------------------------------------------
\* email.ts: recipients and sending.  The recipients configuration is
\* "missing" (no file: getRecipients throws), "empty" (disabled, or no valid
\* address) or "listed".  sendAlertEmail is handed the four sections main.ts
\* builds; formatAlertEmail renders them and does not fail.
\* ------------------------------------------------------------------------
RecipientsConfigs == {"missing", "empty", "listed"}

getRecipientsThrows(config) == config = "missing"

getRecipients(config) == IF config = "listed" THEN <<"ops@example.com">> ELSE <<>>

\* gmailOk: whether gmail.users.messages.send succeeds when it is called
sendEmail(to, dryRun, gmailOk) ==
    IF Len(to) = 0 THEN FALSE
    ELSE IF dryRun THEN TRUE
    ELSE gmailOk

sendAlertEmail(config, dryRun, gmailOk) ==
    LET recipients == getRecipients(config)
    IN  IF Len(recipients) = 0 THEN FALSE
        ELSE sendEmail(recipients, dryRun, gmailOk)

\* sendEmail without the return of its dry-run branch
gmailSendCalled_DryRunToo(config, dryRun) == Len(getRecipients(config)) # 0

\* whether sendAlertEmail reaches gmail.users.messages.send
gmailSendCalled(config, dryRun) == Len(getRecipients(config)) # 0 /\ ~dryRun

\* ------------------------------------------------------------------------
\* main.ts: the sections of the daily email (Step 5) and the marking of the
\* next-day alerts (Step 7)
\* ------------------------------------------------------------------------
createAlertDue(today, report) ==
    [ report |-> report,
      alertDate |-> today,
      daysUntilReport |-> tradingDaysUntil(today, report.reportDate) ]

isReportingTomorrow(today, report) ==
    LET nextTradingDay == getNextTradingDay(today)
    IN  format(report.reportDate) = format(nextTradingDay)

getTradingDaysToReport(today, report) == tradingDaysUntil(today, report.reportDate)

filteredReports(reports, holdingsTickers, watchlistTickers) ==
    LET allTickersOfInterest == Range(holdingsTickers) \cup Range(watchlistTickers)
        OfInterest(r) == toUpperCase(r.ticker) \in allTickersOfInterest
    IN  IF Cardinality(allTickersOfInterest) > 0
        THEN SelectSeq(reports, OfInterest)
        ELSE reports

\* the upcoming window: MaxDays is 5 for holdings and 3 for the watchlist
UpcomingAlerts(today, reports, nextDayAlerts, MaxDays) ==
    LET nextDayTickers == { a.report.ticker : a \in Range(nextDayAlerts) }
        Upcoming(r) ==
            IF r.ticker \in nextDayTickers THEN FALSE
            ELSE LET days == getTradingDaysToReport(today, r)
                 IN  days >= 1 /\ days <= MaxDays
        Due(r) == createAlertDue(today, r)
    IN  Map(SelectSeq(reports, Upcoming), Due)

NextDayAlerts(today, reports) ==
    LET Tomorrow(r) == isReportingTomorrow(today, r)
        Due(r) == createAlertDue(today, r)
    IN  Map(SelectSeq(reports, Tomorrow), Due)

alertSections(today, reports, holdingsTickers, watchlistTickers) ==
    LET filtered == filteredReports(reports, holdingsTickers, watchlistTickers)
        holdingsSet == { toUpperCase(t) : t \in Range(holdingsTickers) }
        InHoldings(r) == toUpperCase(r.ticker) \in holdingsSet
        NotInHoldings(r) == ~(toUpperCase(r.ticker) \in holdingsSet)
        holdingsReports == SelectSeq(filtered, InHoldings)
        watchlistReports == SelectSeq(filtered, NotInHoldings)
        holdingsNextDay == NextDayAlerts(today, holdingsReports)
        watchlistNextDay == NextDayAlerts(today, watchlistReports)
    IN  [ holdingsNextDay |-> holdingsNextDay,
          holdingsUpcoming |-> UpcomingAlerts(today, holdingsReports, holdingsNextDay, 5),
          watchlistNextDay |-> watchlistNextDay,
          watchlistUpcoming |-> UpcomingAlerts(today, watchlistReports, watchlistNextDay, 3) ]

NoSections ==
    [ holdingsNextDay |-> <<>>, holdingsUpcoming |-> <<>>,
      watchlistNextDay |-> <<>>, watchlistUpcoming |-> <<>> ]

totalAlerts(sections) ==
    Len(sections.holdingsNextDay) + Len(sections.holdingsUpcoming)
        + Len(sections.watchlistNextDay) + Len(sections.watchlistUpcoming)

\* every alert of the email handed to sendAlertEmail
AllAlerts(sections) ==
    sections.holdingsNextDay \o sections.holdingsUpcoming
        \o sections.watchlistNextDay \o sections.watchlistUpcoming

\* the alerts to mark without those of the watchlist
nextDayAlerts_HoldingsOnly(sections) == sections.holdingsNextDay

nextDayAlerts(sections) == sections.holdingsNextDay \o sections.watchlistNextDay

\* the condition of Step 7 without the test of the send result
shouldMarkSent_WhateverSent(dryRun, emailSent, alerts) == ~dryRun /\ Len(alerts) > 0

\* the condition of Step 7
shouldMarkSent(dryRun, emailSent, alerts) == ~dryRun /\ emailSent /\ Len(alerts) > 0

\* main: process.exit(1) when runDailyCheck threw, the exit code of a
\* process that ends by itself otherwise
exitCode(status) == IF status = "threw" THEN 1 ELSE 0

\* the file after the Step 7 loop has marked the first n alerts
RECURSIVE MarkLoop(_, _, _, _)
MarkLoop(file, alerts, n, clock) ==
    IF n = 0 THEN file
    ELSE saveSentAlerts(markAlertSent(MarkLoop(file, alerts, n - 1, clock),
                                      alerts[n].report.ticker,
                                      alerts[n].report.reportDate,
                                      undefined, clock))

\* ------------------------------------------------------------------------
\* alerts.ts: parsing of the time of day of a report
\*
\* A string is the sequence of its characters.  An argument that may be
\* missing is undefined (<<>>) or <<value>>.  parseTimeString returns null or
\* [hours, minutes].
\* ------------------------------------------------------------------------
PREMARKET_RANGE == [ startHour |-> 5, startMinute |-> 0, endHour |-> 9, endMinute |-> 30 ]

POSTMARKET_RANGE == [ startHour |-> 16, startMinute |-> 0, endHour |-> 20, endMinute |-> 0 ]

null == [ isNull |-> TRUE ]

DigitChars == <<"0", "1", "2", "3", "4", "5", "6", "7", "8", "9">>

IsDigit(c) == \E i \in DOMAIN DigitChars : DigitChars[i] = c

DigitValue(c) == (CHOOSE i \in DOMAIN DigitChars : DigitChars[i] = c) - 1

\* \s of the regular expressions and the white space String.prototype.trim
\* removes, on the characters of the model
IsSpace(c) == c = " "

RECURSIVE trimStart(_)
trimStart(str) ==
    IF str # <<>> /\ IsSpace(Head(str)) THEN trimStart(Tail(str)) ELSE str

RECURSIVE trimEnd(_)
trimEnd(str) ==
    IF str # <<>> /\ IsSpace(str[Len(str)])
    THEN trimEnd(SubSeq(str, 1, Len(str) - 1))
    ELSE str

trim(str) == trimEnd(trimStart(str))

\* String.prototype.toLowerCase, on the letters of the model
toLowerCase(str) ==
    [ i \in DOMAIN str |->
        CASE str[i] = "A" -> "a"
          [] str[i] = "B" -> "b"
          [] str[i] = "C" -> "c"
          [] str[i] = "M" -> "m"
          [] str[i] = "O" -> "o"
          [] str[i] = "P" -> "p"
          [] str[i] = "R" -> "r"
          [] str[i] = "E" -> "e"
          [] str[i] = "T" -> "t"
          [] OTHER -> str[i] ]

\* String.prototype.includes
includes(str, part) ==
    \E i \in 1 .. (Len(str) - Len(part) + 1) : SubSeq(str, i, i + Len(part) - 1) = part

\* parseInt(digits, 10) of one or two digits
parseInt(digits) ==
    IF Len(digits) = 1 THEN DigitValue(digits[1])
    ELSE 10 * DigitValue(digits[1]) + DigitValue(digits[2])

AllDigits(str, first, last) ==
    /\ last <= Len(str)
    /\ \A i \in first .. last : IsDigit(str[i])

\* one way for /^(\d{1,2}):?(\d{2})?\s*(am|pm)$/ to match: n digits of hours,
\* the colon if there is one, the two digits of minutes or none, white
\* space, the period; the groups it captures, or null
TimeWithPeriodMatch(timeStr, n, withMinutes) ==
    IF ~AllDigits(timeStr, 1, n) THEN null
    ELSE LET afterColon == IF n + 1 <= Len(timeStr) /\ timeStr[n + 1] = ":"
                           THEN n + 2 ELSE n + 1
             afterMinutes == IF withMinutes THEN afterColon + 2 ELSE afterColon
             period == trimStart(SubSeq(timeStr, afterMinutes, Len(timeStr)))
         IN  IF withMinutes /\ ~AllDigits(timeStr, afterColon, afterColon + 1) THEN null
             ELSE IF period \notin { <<"a", "m">>, <<"p", "m">> } THEN null
             ELSE [ hours |-> parseInt(SubSeq(timeStr, 1, n)),
                    minutes |-> IF withMinutes
                                THEN parseInt(SubSeq(timeStr, afterColon, afterColon + 1))
                                ELSE 0,
                    period |-> period ]

\* timeStr.match of that expression: the quantifiers are greedy, so two
\* digits of hours are tried before one, and minutes before none
timeWithPeriod(timeStr) ==
    IF TimeWithPeriodMatch(timeStr, 2, TRUE) # null
    THEN TimeWithPeriodMatch(timeStr, 2, TRUE)
    ELSE IF TimeWithPeriodMatch(timeStr, 2, FALSE) # null
    THEN TimeWithPeriodMatch(timeStr, 2, FALSE)
    ELSE IF TimeWithPeriodMatch(timeStr, 1, TRUE) # null
    THEN TimeWithPeriodMatch(timeStr, 1, TRUE)
    ELSE TimeWithPeriodMatch(timeStr, 1, FALSE)

\* timeStr.match(/^(\d{2}):(\d{2})$/)
time24Colon(timeStr) ==
    IF Len(timeStr) = 5 /\ AllDigits(timeStr, 1, 2) /\ timeStr[3] = ":"
       /\ AllDigits(timeStr, 4, 5)
    THEN [ hours |-> parseInt(SubSeq(timeStr, 1, 2)),
           minutes |-> parseInt(SubSeq(timeStr, 4, 5)) ]
    ELSE null

\* timeStr.match(/^(\d{2})(\d{2})$/)
time24NoColon(timeStr) ==
    IF Len(timeStr) = 4 /\ AllDigits(timeStr, 1, 4)
    THEN [ hours |-> parseInt(SubSeq(timeStr, 1, 2)),
           minutes |-> parseInt(SubSeq(timeStr, 3, 4)) ]
    ELSE null

InRange(hours, minutes) == hours >= 0 /\ hours <= 23 /\ minutes >= 0 /\ minutes <= 59

\* the hours of a time with a period, converted to the 24-hour clock
To24Hour(hours, period) ==
    IF period = <<"p", "m">> /\ hours # 12 THEN hours + 12
    ELSE IF period = <<"a", "m">> /\ hours = 12 THEN 0
    ELSE hours

parseTimeString(timeStr) ==
    LET m1 == timeWithPeriod(timeStr)
        m2 == time24Colon(timeStr)
        m3 == time24NoColon(timeStr)
    IN  IF m1 # null /\ InRange(To24Hour(m1.hours, m1.period), m1.minutes)
        THEN [ hours |-> To24Hour(m1.hours, m1.period), minutes |-> m1.minutes ]
        ELSE IF m2 # null /\ InRange(m2.hours, m2.minutes)
        THEN [ hours |-> m2.hours, minutes |-> m2.minutes ]
        ELSE IF m3 # null /\ InRange(m3.hours, m3.minutes)
        THEN [ hours |-> m3.hours, minutes |-> m3.minutes ]
        ELSE null

\* categorizeTime with the end of each window left out of it
categorizeTime_EndExcluded(hours, minutes) ==
    LET timeValue == hours * 60 + minutes
        premarketStart == PREMARKET_RANGE.startHour * 60 + PREMARKET_RANGE.startMinute
        premarketEnd == PREMARKET_RANGE.endHour * 60 + PREMARKET_RANGE.endMinute
        postmarketStart == POSTMARKET_RANGE.startHour * 60 + POSTMARKET_RANGE.startMinute
        postmarketEnd == POSTMARKET_RANGE.endHour * 60 + POSTMARKET_RANGE.endMinute
    IN  IF timeValue >= premarketStart /\ timeValue < premarketEnd THEN "premarket"
        ELSE IF timeValue >= postmarketStart /\ timeValue < postmarketEnd THEN "postmarket"
        ELSE IF timeValue < premarketStart THEN "premarket"
        ELSE IF timeValue > premarketEnd /\ timeValue < postmarketStart THEN "unknown"
        ELSE IF timeValue > postmarketEnd THEN "postmarket"
        ELSE "unknown"

categorizeTime(hours, minutes) ==
    LET timeValue == hours * 60 + minutes
        premarketStart == PREMARKET_RANGE.startHour * 60 + PREMARKET_RANGE.startMinute
        premarketEnd == PREMARKET_RANGE.endHour * 60 + PREMARKET_RANGE.endMinute
        postmarketStart == POSTMARKET_RANGE.startHour * 60 + POSTMARKET_RANGE.startMinute
        postmarketEnd == POSTMARKET_RANGE.endHour * 60 + POSTMARKET_RANGE.endMinute
    IN  IF timeValue >= premarketStart /\ timeValue <= premarketEnd THEN "premarket"
        ELSE IF timeValue >= postmarketStart /\ timeValue <= postmarketEnd THEN "postmarket"
        ELSE IF timeValue < premarketStart THEN "premarket"
        ELSE IF timeValue > premarketEnd /\ timeValue < postmarketStart THEN "unknown"
        ELSE IF timeValue > postmarketEnd THEN "postmarket"
        ELSE "unknown"

premarketIndicators ==
    << <<"p", "r", "e", "m", "a", "r", "k", "e", "t">>,
       <<"p", "r", "e", "-", "m", "a", "r", "k", "e", "t">>,
       <<"p", "r", "e">>,
       <<"b", "m", "o">>,
       <<"b", "e", "f", "o", "r", "e", " ", "m", "a", "r", "k", "e", "t", " ", "o", "p", "e", "n">>,
       <<"b", "e", "f", "o", "r", "e", " ", "m", "a", "r", "k", "e", "t">>,
       <<"b", "e", "f", "o", "r", "e", " ", "o", "p", "e", "n">>,
       <<"m", "o", "r", "n", "i", "n", "g">> >>

postmarketIndicators ==
    << <<"p", "o", "s", "t", "m", "a", "r", "k", "e", "t">>,
       <<"p", "o", "s", "t", "-", "m", "a", "r", "k", "e", "t">>,
       <<"p", "o", "s", "t">>,
       <<"a", "m", "c">>,
       <<"a", "f", "t", "e", "r", " ", "m", "a", "r", "k", "e", "t", " ", "c", "l", "o", "s", "e">>,
       <<"a", "f", "t", "e", "r", " ", "m", "a", "r", "k", "e", "t">>,
       <<"a", "f", "t", "e", "r", " ", "c", "l", "o", "s", "e">>,
       <<"a", "f", "t", "e", "r", " ", "h", "o", "u", "r", "s">>,
       <<"e", "v", "e", "n", "i", "n", "g">> >>

\* the loops over the indicators: whether one of them is in the string
HasIndicator(normalized, indicators) ==
    \E i \in DOMAIN indicators :
        normalized = indicators[i] \/ includes(normalized, indicators[i])

\* parseTimeOfDay looking for the postmarket indicators first
parseTimeOfDay_PostmarketFirst(timeStr) ==
    IF timeStr = undefined \/ timeStr[1] = <<>> THEN "unknown"
    ELSE LET normalized == toLowerCase(trim(timeStr[1]))
             parsedTime == parseTimeString(normalized)
         IN  IF normalized = <<>> THEN "unknown"
             ELSE IF HasIndicator(normalized, postmarketIndicators) THEN "postmarket"
             ELSE IF HasIndicator(normalized, premarketIndicators) THEN "premarket"
             ELSE IF parsedTime # null
             THEN categorizeTime(parsedTime.hours, parsedTime.minutes)
             ELSE "unknown"

parseTimeOfDay(timeStr) ==
    IF timeStr = undefined \/ timeStr[1] = <<>> THEN "unknown"
    ELSE LET normalized == toLowerCase(trim(timeStr[1]))
             parsedTime == parseTimeString(normalized)
         IN  IF normalized = <<>> THEN "unknown"
             ELSE IF HasIndicator(normalized, premarketIndicators) THEN "premarket"
             ELSE IF HasIndicator(normalized, postmarketIndicators) THEN "postmarket"
             ELSE IF parsedTime # null
             THEN categorizeTime(parsedTime.hours, parsedTime.minutes)
             ELSE "unknown"

\* ------------------------------------------------------------------------
\* Inputs of the model
\* ------------------------------------------------------------------------
TimeOfDay == {"premarket", "postmarket", "unknown"}

\* tickers as the sheet reader produces them (parseRow upper-cases them)
SheetTickers == {"MSFT", "AAPL"}

\* the alert engine never reads the ticker: its calls are made on one
EngineTickers == {"MSFT"}

ReportDays == FirstReportDay .. (FirstReportDay + NumReportDays - 1)

\* report dates are midnight UTC of a calendar day (parseDate)
EarningsReport ==
    [ ticker : EngineTickers,
      reportDate : { DateUTC(d) : d \in ReportDays },
      timeOfDay : TimeOfDay ]

\* the reports of the lists handed to findDueAlerts: a postmarket report
\* and a premarket report of the same day, and a report of unknown session
\* on the next calendar day
ScanReports ==
    { [ ticker |-> "MSFT", reportDate |-> DateUTC(FirstReportDay), timeOfDay |-> "postmarket" ],
      [ ticker |-> "AAPL", reportDate |-> DateUTC(FirstReportDay), timeOfDay |-> "premarket" ],
      [ ticker |-> "MSFT", reportDate |-> DateUTC(FirstReportDay + 1), timeOfDay |-> "unknown" ] }

\* "today" is any instant of the days around the report window
Instants ==
    { DateUTC(d) + h : d \in (FirstReportDay - LeadDays) .. (FirstReportDay + NumReportDays - 1),
                       h \in 0 .. (TicksPerDay - 1) }

Offsets == (-1) .. MaxOffset

SeqsUpTo(S, n) == UNION { [1 .. k -> S] : k \in 0 .. n }

\* the rows of the earnings sheet in the model of the daily run
SheetReports ==
    { [ ticker |-> t, reportDate |-> DateUTC(FirstReportDay),
        timeOfDay |-> "postmarket" ] : t \in SheetTickers }
    \cup
    { [ ticker |-> "MSFT", reportDate |-> DateUTC(FirstReportDay + 4),
        timeOfDay |-> "premarket" ] }

\* tickers, dates, thresholds and due alerts handed to the ledger functions
LedgerTickers == {"MSFT", "msft", "AAPL"}
\* the tickers that are marked: one symbol in two cases
MarkedTickers == {"MSFT", "msft"}
LedgerDates == { DateUTC(FirstReportDay), DateUTC(FirstReportDay + 1) }
Thresholds == { undefined, <<0>>, <<1>> }
\* the days cleanupOldAlerts is asked to keep; 30 is its default
DaysToKeep == {0, 1, 30}
\* one of the tickers of the due alerts is in lower case
LedgerAlerts ==
    { [ report |-> [ ticker |-> t, reportDate |-> d, timeOfDay |-> "unknown" ],
        alertDate |-> d,
        daysUntilReport |-> 0 ] : t \in {"msft", "AAPL"}, d \in LedgerDates }
    \ { [ report |-> [ ticker |-> "AAPL", reportDate |-> DateUTC(FirstReportDay + 1),
                       timeOfDay |-> "unknown" ],
          alertDate |-> DateUTC(FirstReportDay + 1),
          daysUntilReport |-> 0 ] }

\* the first instant of the model of the daily run
FirstInstant == DateUTC(FirstReportDay - LeadDays)

\* the states of the file the ledger functions may find at the start: no
\* file, a file that cannot be read, one that is not JSON, and a JSON object
\* holding a record of "MSFT" where the array of records should be
LedgerStartFiles ==
    { MissingFile,
      [ kind |-> "unreadable", records |-> <<>> ],
      [ kind |-> "invalidJSON", records |-> <<>> ],
      [ kind |-> "notArray",
        records |-> << [ ticker |-> "MSFT", reportDate |-> format(DateUTC(FirstReportDay)),
                         sentAt |-> FirstInstant ] >> ] }

\* the ticker in lower case, used to record what was marked
LowerCase(ticker) ==
    CASE ticker = "MSFT" -> "msft"
      [] ticker = "Msft" -> "msft"
      [] ticker = "AAPL" -> "aapl"
      [] OTHER -> ticker

\* ------------------------------------------------------------------------
\* State
\* ------------------------------------------------------------------------
VARIABLES
    call,            \* the engine call under observation: its inputs and result
    sentAlertsFile,  \* data/sent-alerts.json
    now,             \* the clock: new Date()
    sheet,           \* the rows getEarningsReports returns
    holdings,        \* the tickers getHoldingsFromEmail returns
    watchlist,       \* the tickers getWatchlistTickers returns
    run,             \* the last daily run: its options, its email, its outcome
    ledgerCall,      \* the last call of a ledger function and its result
    marked,          \* history: <<ticker in lower case, calendar day>> of every
                     \* markAlertSent call of the ledger specification that returned
    cycle            \* two processes, each in a load -> mutate -> save cycle

vars == <<call, sentAlertsFile, now, sheet, holdings, watchlist, run, ledgerCall, marked, cycle>>

NoCall == [ fn |-> "none", done |-> TRUE ]

NoRun ==
    [ status |-> "none", dryRun |-> FALSE,
      today |-> FirstInstant, sections |-> NoSections, emailSent |-> FALSE,
      gmailCalled |-> FALSE, fileBefore |-> MissingFile,
      writeFailed |-> FALSE, exitCode |-> 0 ]

NoLedgerCall == [ fn |-> "none" ]

\* no process is in a cycle
NoCycle == <<>>

\* ------------------------------------------------------------------------
\* Specification of the alert engine: the inputs of one call are drawn at
\* the start, the action applies the function to them
\* ------------------------------------------------------------------------
AlertDateCalls ==
    { [ fn |-> "determineAlertDateWithOffset", done |-> FALSE,
        report |-> r, tradingDaysBefore |-> k, result |-> 0 ] :
      r \in EarningsReport, k \in Offsets }

ScanCalls ==
    { [ fn |-> "findDueAlerts", done |-> FALSE,
        reports |-> rs, today |-> t, alertDaysBefore |-> ks, result |-> <<>>,
        threw |-> FALSE ] :
      rs \in SeqsUpTo(ScanReports, MaxReports), t \in Instants,
      ks \in SeqsUpTo(Offsets, MaxOffsets) }

InitAlerts ==
    /\ call \in AlertDateCalls \cup ScanCalls
    /\ sentAlertsFile = MissingFile
    /\ now = FirstInstant
    /\ sheet = <<>>
    /\ holdings = <<>>
    /\ watchlist = <<>>
    /\ run = NoRun
    /\ ledgerCall = NoLedgerCall
    /\ marked = {}
    /\ cycle = NoCycle

DetermineAlertDateWithOffset ==
    /\ call.fn = "determineAlertDateWithOffset"
    /\ ~call.done
    /\ call' = [ call EXCEPT
                   !.done = TRUE,
                   !.result = determineAlertDateWithOffset(call.report,
                                                           call.tradingDaysBefore) ]
    /\ UNCHANGED <<sentAlertsFile, now, sheet, holdings, watchlist, run, ledgerCall, marked, cycle>>

FindDueAlerts ==
    /\ call.fn = "findDueAlerts"
    /\ ~call.done
    /\ call' = [ call EXCEPT
                   !.done = TRUE,
                   !.threw = findDueAlertsThrows(call.reports, call.today,
                                                 call.alertDaysBefore),
                   !.result = findDueAlerts(call.reports, call.today,
                                            call.alertDaysBefore) ]
    /\ UNCHANGED <<sentAlertsFile, now, sheet, holdings, watchlist, run, ledgerCall, marked, cycle>>

NextAlerts == DetermineAlertDateWithOffset \/ FindDueAlerts

SpecAlerts == InitAlerts /\ [][NextAlerts]_vars

\* ------------------------------------------------------------------------
\* Specification of a scan that is handed reports whose date did not parse:
\* reportDate is then Invalid Date
\* ------------------------------------------------------------------------
\* two reports of the window and two whose date is invalid
LeakedReports ==
    { [ ticker |-> "MSFT", reportDate |-> DateUTC(FirstReportDay), timeOfDay |-> "postmarket" ],
      [ ticker |-> "AAPL", reportDate |-> DateUTC(FirstReportDay + 3), timeOfDay |-> "premarket" ],
      [ ticker |-> "NVDA", reportDate |-> NaN, timeOfDay |-> "postmarket" ],
      [ ticker |-> "TSLA", reportDate |-> NaN, timeOfDay |-> "unknown" ] }

\* the default list of thresholds and two lists a caller may pass
ThresholdLists == { <<0>>, <<1>>, <<2, 0>> }

LeakedScanCalls ==
    { [ fn |-> "findDueAlerts", done |-> FALSE,
        reports |-> rs, today |-> t, alertDaysBefore |-> ks, result |-> <<>>,
        threw |-> FALSE ] :
      rs \in SeqsUpTo(LeakedReports, MaxReports), t \in Instants,
      ks \in ThresholdLists }

InitInvalidDate ==
    /\ call \in LeakedScanCalls
    /\ sentAlertsFile = MissingFile
    /\ now = FirstInstant
    /\ sheet = <<>>
    /\ holdings = <<>>
    /\ watchlist = <<>>
    /\ run = NoRun
    /\ ledgerCall = NoLedgerCall
    /\ marked = {}
    /\ cycle = NoCycle

NextInvalidDate == FindDueAlerts

SpecInvalidDate == InitInvalidDate /\ [][NextInvalidDate]_vars

\* ------------------------------------------------------------------------
\* Specification of the ledger: calls of markAlertSent, hasAlertBeenSent and
\* filterUnsentAlerts on one file, in any order
\* ------------------------------------------------------------------------
InitLedger ==
    /\ call = NoCall
    /\ sentAlertsFile \in LedgerStartFiles
    /\ now = FirstInstant
    /\ sheet = <<>>
    /\ holdings = <<>>
    /\ watchlist = <<>>
    /\ run = NoRun
    /\ ledgerCall = NoLedgerCall
    /\ marked = {}
    /\ cycle = NoCycle

\* markAlertSent(ticker, reportDate, alertDaysBefore?): load, push, save; the
\* write of saveSentAlerts succeeds, or fails and the error is thrown
MarkAlertSent ==
    \E ticker \in MarkedTickers, reportDate \in LedgerDates,
       alertDaysBefore \in Thresholds, writeOk \in BOOLEAN :
        /\ Len(loadSentAlerts(sentAlertsFile)) < MaxLedger
        /\ sentAlertsFile' =
               IF writeOk
               THEN saveSentAlerts(markAlertSent(sentAlertsFile, ticker, reportDate,
                                                 alertDaysBefore, now))
               ELSE sentAlertsFile
        /\ ledgerCall' = [ fn |-> "markAlertSent", ticker |-> ticker,
                           reportDate |-> reportDate,
                           alertDaysBefore |-> alertDaysBefore,
                           threw |-> saveSentAlertsThrows(writeOk) ]
        /\ marked' = IF writeOk
                     THEN marked \cup { <<LowerCase(ticker), UTCDay(reportDate)>> }
                     ELSE marked
        /\ UNCHANGED <<call, now, sheet, holdings, watchlist, run, cycle>>

HasAlertBeenSent ==
    \E ticker \in LedgerTickers, reportDate \in LedgerDates,
       alertDaysBefore \in Thresholds :
        /\ ledgerCall' = [ fn |-> "hasAlertBeenSent", ticker |-> ticker,
                           reportDate |-> reportDate,
                           alertDaysBefore |-> alertDaysBefore,
                           result |-> hasAlertBeenSent(sentAlertsFile, ticker,
                                                       reportDate, alertDaysBefore) ]
        /\ UNCHANGED <<call, sentAlertsFile, now, sheet, holdings, watchlist, run, marked, cycle>>

FilterUnsentAlerts ==
    \E dueAlerts \in SeqsUpTo(LedgerAlerts, MaxDue), alertDaysBefore \in Thresholds :
        /\ ledgerCall' = [ fn |-> "filterUnsentAlerts", dueAlerts |-> dueAlerts,
                           alertDaysBefore |-> alertDaysBefore,
                           result |-> filterUnsentAlerts(sentAlertsFile, dueAlerts,
                                                         alertDaysBefore) ]
        /\ UNCHANGED <<call, sentAlertsFile, now, sheet, holdings, watchlist, run, marked, cycle>>

NextLedger == MarkAlertSent \/ HasAlertBeenSent \/ FilterUnsentAlerts

SpecLedger == InitLedger /\ [][NextLedger]_vars

\* ------------------------------------------------------------------------
\* Specification of the daily run (main.ts): runs of runDailyCheck, one after
\* the other, on a clock that advances between them.  The sheet, the
\* holdings and the watchlist are those of the start.
\* ------------------------------------------------------------------------
InitRun ==
    /\ call = NoCall
    /\ sentAlertsFile = MissingFile
    /\ now = FirstInstant
    /\ sheet \in SeqsUpTo(SheetReports, MaxSheet)
    /\ holdings = <<"MSFT">>
    /\ watchlist = <<"AAPL">>
    /\ run = NoRun
    /\ ledgerCall = NoLedgerCall
    /\ marked = {}
    /\ cycle = NoCycle

Tick ==
    /\ now < FirstInstant + MaxTicks
    /\ now' = now + 1
    /\ UNCHANGED <<call, sentAlertsFile, sheet, holdings, watchlist, run, ledgerCall, marked, cycle>>

\* how a run ends: the file it leaves and what is known of it
Finish(status, dryRun, sections, emailSent, gmailCalled, writeFailed, file) ==
    /\ sentAlertsFile' = file
    /\ run' = [ status |-> status, dryRun |-> dryRun, today |-> now,
                sections |-> sections, emailSent |-> emailSent,
                gmailCalled |-> gmailCalled, fileBefore |-> sentAlertsFile,
                writeFailed |-> writeFailed, exitCode |-> exitCode(status) ]
    /\ UNCHANGED <<call, now, sheet, holdings, watchlist, ledgerCall, marked, cycle>>

\* Steps 6 and 7: send the sections, then mark the next-day alerts
SendAndMark(dryRun, sections) ==
    \E config \in RecipientsConfigs :
        \/ /\ getRecipientsThrows(config)
           /\ Finish("threw", dryRun, sections, FALSE, FALSE, FALSE,
                     sentAlertsFile)
        \/ /\ ~getRecipientsThrows(config)
           /\ \E gmailOk \in BOOLEAN :
                LET emailSent == sendAlertEmail(config, dryRun, gmailOk)
                    gmailCalled == gmailSendCalled(config, dryRun)
                    alerts == nextDayAlerts(sections)
                IN  IF shouldMarkSent(dryRun, emailSent, alerts)
                    THEN /\ Len(loadSentAlerts(sentAlertsFile)) + Len(alerts) <= MaxLedger
                         /\ \/ Finish("done", dryRun, sections,
                                      emailSent, gmailCalled, FALSE,
                                      MarkLoop(sentAlertsFile, alerts, Len(alerts), now))
                            \/ \E failAt \in 1 .. Len(alerts) :
                                   \* the write of the failAt-th markAlertSent fails
                                   Finish(IF saveSentAlertsThrows(FALSE)
                                          THEN "threw" ELSE "done",
                                          dryRun, sections,
                                          emailSent, gmailCalled, TRUE,
                                          MarkLoop(sentAlertsFile, alerts, failAt - 1, now))
                    ELSE Finish("done", dryRun, sections,
                                emailSent, gmailCalled, FALSE, sentAlertsFile)

RunDailyCheck ==
    \E dryRun \in BOOLEAN, checkTradingDay \in BOOLEAN :
        LET today == now
        IN  \/ \* Step 1: not a trading day
               /\ checkTradingDay /\ ~isTradingDay(today)
               /\ Finish("notTradingDay", dryRun, NoSections,
                         FALSE, FALSE, FALSE, sentAlertsFile)
            \/ /\ ~(checkTradingDay /\ ~isTradingDay(today))
               \* Steps 2 and 3: a failed fetch leaves the list empty
               /\ \E holdingsTickers \in {holdings, <<>>},
                     watchlistTickers \in {watchlist, <<>>} :
                    \/ \* Step 4: getEarningsReports throws
                       Finish("threw", dryRun, NoSections,
                              FALSE, FALSE, FALSE, sentAlertsFile)
                    \/ /\ Len(sheet) = 0
                       /\ Finish("noReports", dryRun, NoSections,
                                 FALSE, FALSE, FALSE, sentAlertsFile)
                    \/ /\ Len(sheet) # 0
                       /\ LET sections == alertSections(today, sheet, holdingsTickers,
                                                        watchlistTickers)
                          IN  IF totalAlerts(sections) = 0
                              THEN Finish("noAlerts", dryRun, sections,
                                          FALSE, FALSE, FALSE, sentAlertsFile)
                              ELSE SendAndMark(dryRun, sections)

NextRun == RunDailyCheck \/ Tick

SpecRun == InitRun /\ [][NextRun]_vars

\* ------------------------------------------------------------------------
\* Specification of cleanupOldAlerts: calls on a ledger that earlier runs
\* have written, at some instant of the clock.  markAlertSent appends with
\* the time of the clock, so the records of a ledger are in the order of
\* their sentAt, and none is later than now.
\* ------------------------------------------------------------------------
SentInstants == FirstInstant .. (FirstInstant + MaxTicks)

CleanupRecords ==
    [ ticker : {"MSFT"}, reportDate : { format(d) : d \in LedgerDates },
      sentAt : SentInstants ]

CleanupFiles ==
    { MissingFile }
    \cup { saveSentAlerts(rs) : rs \in
               { ss \in SeqsUpTo(CleanupRecords, MaxLedger) :
                     \A i, j \in DOMAIN ss : i < j => ss[i].sentAt <= ss[j].sentAt } }

InitCleanup ==
    /\ call = NoCall
    /\ sentAlertsFile \in CleanupFiles
    /\ now \in SentInstants
    /\ \A i \in DOMAIN sentAlertsFile.records : sentAlertsFile.records[i].sentAt <= now
    /\ sheet = <<>>
    /\ holdings = <<>>
    /\ watchlist = <<>>
    /\ run = NoRun
    /\ ledgerCall = NoLedgerCall
    /\ marked = {}
    /\ cycle = NoCycle

\* cleanupOldAlerts(daysToKeep): load, filter, save when something was
\* removed; the write succeeds, or fails and the error is thrown
CleanupOldAlerts ==
    \E daysToKeep \in DaysToKeep, writeOk \in BOOLEAN :
        LET sentAlerts == loadSentAlerts(sentAlertsFile)
            saves == cleanupSaves(sentAlerts, daysToKeep, now)
            threw == saves /\ saveSentAlertsThrows(writeOk)
            after == IF saves /\ writeOk
                     THEN saveSentAlerts(filteredAlerts(sentAlerts, daysToKeep, now))
                     ELSE sentAlertsFile
        IN  /\ sentAlertsFile' = after
            /\ ledgerCall' = [ fn |-> "cleanupOldAlerts", daysToKeep |-> daysToKeep,
                               clock |-> now, before |-> sentAlertsFile,
                               after |-> after,
                               writeFailed |-> saves /\ ~writeOk,
                               threw |-> threw,
                               result |-> IF threw THEN undefined
                                          ELSE <<cleanupOldAlerts(sentAlertsFile,
                                                                  daysToKeep, now)>> ]
            /\ UNCHANGED <<call, now, sheet, holdings, watchlist, run, marked, cycle>>

NextCleanup == CleanupOldAlerts

SpecCleanup == InitCleanup /\ [][NextCleanup]_vars

\* ------------------------------------------------------------------------
\* Specification of two overlapping processes.  Each runs one cycle of
\* markAlertSent or cleanupOldAlerts on the same file: loadSentAlerts reads
\* the file (readFileSync), the array is changed in memory, saveSentAlerts
\* writes it (writeFileSync).  Nothing in the code holds the file between
\* the read and the write, so the steps of the two processes interleave.
\* ------------------------------------------------------------------------
Processes == {1, 2}

\* the file an earlier run left: none, or one record sent two days ago
OverlapFiles ==
    { MissingFile,
      saveSentAlerts(<< [ ticker |-> "MSFT", reportDate |-> format(DateUTC(FirstReportDay - 1)),
                          sentAt |-> FirstInstant - 2 * TicksPerDay ] >>) }

\* the operations a process may be running
CycleOps ==
    { [ fn |-> "markAlertSent", ticker |-> t, reportDate |-> d ] :
          t \in SheetTickers, d \in LedgerDates }
    \cup { [ fn |-> "cleanupOldAlerts", daysToKeep |-> n ] : n \in DaysToKeep }

InitOverlap ==
    /\ call = NoCall
    /\ sentAlertsFile \in OverlapFiles
    /\ now = FirstInstant
    /\ sheet = <<>>
    /\ holdings = <<>>
    /\ watchlist = <<>>
    /\ run = NoRun
    /\ ledgerCall = NoLedgerCall
    /\ marked = {}
    /\ cycle \in [ Processes -> { [ pc |-> "start", op |-> o, read |-> MissingFile ] :
                                   o \in CycleOps } ]

\* const sentAlerts = loadSentAlerts(): what the process read of the file
Load(p) ==
    /\ cycle[p].pc = "start"
    /\ cycle' = [ cycle EXCEPT ![p].pc = "loaded", ![p].read = sentAlertsFile ]
    /\ UNCHANGED <<call, sentAlertsFile, now, sheet, holdings, watchlist, run,
                   ledgerCall, marked>>

\* the rest of the cycle: the change in memory and saveSentAlerts
Save(p) ==
    /\ cycle[p].pc = "loaded"
    /\ LET op == cycle[p].op
           sentAlerts == loadSentAlerts(cycle[p].read)
       IN  sentAlertsFile' =
               IF op.fn = "markAlertSent"
               THEN saveSentAlerts(markAlertSent(cycle[p].read, op.ticker, op.reportDate,
                                                 undefined, now))
               ELSE IF cleanupSaves(sentAlerts, op.daysToKeep, now)
                    THEN saveSentAlerts(filteredAlerts(sentAlerts, op.daysToKeep, now))
                    ELSE sentAlertsFile
    /\ cycle' = [ cycle EXCEPT ![p].pc = "done" ]
    /\ UNCHANGED <<call, now, sheet, holdings, watchlist, run, ledgerCall, marked>>

NextOverlap == \E p \in Processes : Load(p) \/ Save(p)

SpecOverlap == InitOverlap /\ [][NextOverlap]_vars

\* ------------------------------------------------------------------------
\* Specification of the trading calendar: one call of isTradingDay,
\* getNextTradingDay, getPreviousTradingDay or tradingDaysUntil on dates
\* drawn at the start
\* ------------------------------------------------------------------------
\* the days around the report window, which hold a weekend and the holiday
\* of 2025-01-20, and two holidays far from it: 2025-01-01 and 2025-12-25
WindowDays == (FirstReportDay - LeadDays) .. (FirstReportDay + NumReportDays - 1)
CalendarDays == WindowDays \cup {0, 358}

WindowDates == { DateUTC(d) + h : d \in WindowDays, h \in 0 .. (TicksPerDay - 1) }
CalendarDates == { DateUTC(d) + h : d \in CalendarDays, h \in 0 .. (TicksPerDay - 1) }

CalendarCalls ==
    { [ fn |-> "isTradingDay", done |-> FALSE, date |-> d, result |-> FALSE ] :
      d \in CalendarDates }
    \cup
    { [ fn |-> f, done |-> FALSE, date |-> d, result |-> 0 ] :
      f \in {"getNextTradingDay", "getPreviousTradingDay"}, d \in CalendarDates }
    \cup
    { [ fn |-> "tradingDaysUntil", done |-> FALSE, from |-> a, to |-> b, result |-> 0 ] :
      a \in WindowDates, b \in WindowDates }

InitCalendar ==
    /\ call \in CalendarCalls
    /\ sentAlertsFile = MissingFile
    /\ now = FirstInstant
    /\ sheet = <<>>
    /\ holdings = <<>>
    /\ watchlist = <<>>
    /\ run = NoRun
    /\ ledgerCall = NoLedgerCall
    /\ marked = {}
    /\ cycle = NoCycle

IsTradingDay ==
    /\ call.fn = "isTradingDay"
    /\ ~call.done
    /\ call' = [ call EXCEPT !.done = TRUE, !.result = isTradingDay(call.date) ]
    /\ UNCHANGED <<sentAlertsFile, now, sheet, holdings, watchlist, run, ledgerCall, marked, cycle>>

GetNextTradingDay ==
    /\ call.fn = "getNextTradingDay"
    /\ ~call.done
    /\ call' = [ call EXCEPT !.done = TRUE, !.result = getNextTradingDay(call.date) ]
    /\ UNCHANGED <<sentAlertsFile, now, sheet, holdings, watchlist, run, ledgerCall, marked, cycle>>

GetPreviousTradingDay ==
    /\ call.fn = "getPreviousTradingDay"
    /\ ~call.done
    /\ call' = [ call EXCEPT !.done = TRUE, !.result = getPreviousTradingDay(call.date) ]
    /\ UNCHANGED <<sentAlertsFile, now, sheet, holdings, watchlist, run, ledgerCall, marked, cycle>>

TradingDaysUntil ==
    /\ call.fn = "tradingDaysUntil"
    /\ ~call.done
    /\ call' = [ call EXCEPT !.done = TRUE, !.result = tradingDaysUntil(call.from, call.to) ]
    /\ UNCHANGED <<sentAlertsFile, now, sheet, holdings, watchlist, run, ledgerCall, marked, cycle>>

NextCalendar == IsTradingDay \/ GetNextTradingDay \/ GetPreviousTradingDay \/ TradingDaysUntil

SpecCalendar == InitCalendar /\ [][NextCalendar]_vars

\* ------------------------------------------------------------------------
\* Specification of parseTimeOfDay: one call on a string drawn at the start.
\* Each input carries what it is by the rules of the parser's documentation:
\* its kind ("empty": missing or blank, "pre" / "post": holds a premarket /
\* postmarket indicator, "both": holds one of each, "clock": a clock time,
\* "other") and, for a clock time, the hours and minutes it denotes on the
\* 24-hour clock.
\* ------------------------------------------------------------------------
TwoDigits(n) == << DigitChars[(n \div 10) + 1], DigitChars[(n % 10) + 1] >>

\* the hour of the 12-hour clock, without a leading zero
TwelveHour(h) ==
    LET h12 == IF h % 12 = 0 THEN 12 ELSE h % 12
    IN  IF h12 < 10 THEN << DigitChars[h12 + 1] >> ELSE TwoDigits(h12)

Period(h) == IF h < 12 THEN <<"a", "m">> ELSE <<"p", "m">>

\* every minute of the day written as "HH:MM", as "HHMM" and as "h:MMam" or
\* "h:MMpm"
ClockInputs ==
    { [ timeStr |-> << TwoDigits(h) \o <<":">> \o TwoDigits(m) >>,
        kind |-> "clock", clock |-> <<h, m>> ] : h \in 0 .. 23, m \in 0 .. 59 }
    \cup
    { [ timeStr |-> << TwoDigits(h) \o TwoDigits(m) >>,
        kind |-> "clock", clock |-> <<h, m>> ] : h \in 0 .. 23, m \in 0 .. 59 }
    \cup
    { [ timeStr |-> << TwelveHour(h) \o <<":">> \o TwoDigits(m) \o Period(h) >>,
        kind |-> "clock", clock |-> <<h, m>> ] : h \in 0 .. 23, m \in 0 .. 59 }

\* named indicators, blank and missing strings, strings that are no time,
\* and clock times in the other spellings
OtherInputs ==
    { [ timeStr |-> <<<<"B", "M", "O">>>>, kind |-> "pre", clock |-> undefined ],
      [ timeStr |-> <<<<" ", "P", "r", "e", "-", "M", "a", "r", "k", "e", "t", " ">>>>, kind |-> "pre", clock |-> undefined ],
      [ timeStr |-> <<<<"b", "e", "f", "o", "r", "e", " ", "o", "p", "e", "n">>>>, kind |-> "pre", clock |-> undefined ],
      [ timeStr |-> <<<<"m", "o", "r", "n", "i", "n", "g">>>>, kind |-> "pre", clock |-> undefined ],
      [ timeStr |-> <<<<"p", "r", "e", "m", "a", "r", "k", "e", "t">>>>, kind |-> "pre", clock |-> undefined ],
      [ timeStr |-> <<<<"p", "r", "e", " ", "1", "7", ":", "0", "0">>>>, kind |-> "pre", clock |-> undefined ],
      [ timeStr |-> <<<<"c", "o", "m", "p", "r", "e", "s", "s", "e", "d">>>>, kind |-> "pre", clock |-> undefined ],
      [ timeStr |-> <<<<"A", "M", "C">>>>, kind |-> "post", clock |-> undefined ],
      [ timeStr |-> <<<<"p", "o", "s", "t", "-", "m", "a", "r", "k", "e", "t">>>>, kind |-> "post", clock |-> undefined ],
      [ timeStr |-> <<<<"e", "v", "e", "n", "i", "n", "g">>>>, kind |-> "post", clock |-> undefined ],
      [ timeStr |-> <<<<"a", "f", "t", "e", "r", " ", "c", "l", "o", "s", "e">>>>, kind |-> "post", clock |-> undefined ],
      [ timeStr |-> <<<<"a", "m", "c", " ", "0", "6", ":", "0", "0">>>>, kind |-> "post", clock |-> undefined ],
      [ timeStr |-> <<<<"p", "o", "s", "t", "p", "o", "n", "e", "d">>>>, kind |-> "post", clock |-> undefined ],
      [ timeStr |-> <<<<"p", "r", "e", "m", "a", "r", "k", "e", "t", "/", "p", "o", "s", "t", "m", "a", "r", "k", "e", "t">>>>, kind |-> "both", clock |-> undefined ],
      [ timeStr |-> <<<<"p", "o", "s", "t", "-", "p", "r", "e", "m", "a", "r", "k", "e", "t">>>>, kind |-> "both", clock |-> undefined ],
      [ timeStr |-> <<<<"a", "m", "c", " ", "p", "r", "e">>>>, kind |-> "both", clock |-> undefined ],
      [ timeStr |-> <<<<>>>>, kind |-> "empty", clock |-> undefined ],
      [ timeStr |-> <<<<" ", " ", " ">>>>, kind |-> "empty", clock |-> undefined ],
      [ timeStr |-> <<<<"t", "b", "d">>>>, kind |-> "other", clock |-> undefined ],
      [ timeStr |-> <<<<"2", "5", ":", "0", "0">>>>, kind |-> "other", clock |-> undefined ],
      [ timeStr |-> <<<<"1", "6", ":", "6", "1">>>>, kind |-> "other", clock |-> undefined ],
      [ timeStr |-> <<<<"1", "3", ":", "0", "0", "p", "m">>>>, kind |-> "other", clock |-> undefined ],
      [ timeStr |-> <<<<"7">>>>, kind |-> "other", clock |-> undefined ],
      [ timeStr |-> <<<<"6", ":", "0", "0">>>>, kind |-> "other", clock |-> undefined ],
      [ timeStr |-> <<<<"n", "o", "o", "n">>>>, kind |-> "other", clock |-> undefined ],
      [ timeStr |-> <<<<"1", "6", ":", "0", "0", " ", "e", "t">>>>, kind |-> "other", clock |-> undefined ],
      [ timeStr |-> <<<<"1", "2", "3", "4", "5", "6">>>>, kind |-> "other", clock |-> undefined ],
      [ timeStr |-> <<<<"1", "2", ":", "6", "0", "a", "m">>>>, kind |-> "other", clock |-> undefined ],
      [ timeStr |-> <<<<"9", "a", "m">>>>, kind |-> "clock", clock |-> <<9, 0>> ],
      [ timeStr |-> <<<<"9", "3", "0", "a", "m">>>>, kind |-> "clock", clock |-> <<9, 30>> ],
      [ timeStr |-> <<<<"5", ":", "3", "0", " ", "P", "M">>>>, kind |-> "clock", clock |-> <<17, 30>> ],
      [ timeStr |-> <<<<"1", "2", "a", "m">>>>, kind |-> "clock", clock |-> <<0, 0>> ],
      [ timeStr |-> <<<<"1", "2", "p", "m">>>>, kind |-> "clock", clock |-> <<12, 0>> ],
      [ timeStr |-> <<<<"4", " ", "p", "m">>>>, kind |-> "clock", clock |-> <<16, 0>> ],
      [ timeStr |-> <<<<"1", "2", "3", "0", "p", "m">>>>, kind |-> "clock", clock |-> <<12, 30>> ],
      [ timeStr |-> <<<<" ", "0", "6", "0", "0", " ">>>>, kind |-> "clock", clock |-> <<6, 0>> ],
      [ timeStr |-> <<<<"8", ":", "0", "1", "P", "M">>>>, kind |-> "clock", clock |-> <<20, 1>> ],
      [ timeStr |-> undefined, kind |-> "empty", clock |-> undefined ] }

TimeCalls ==
    { [ fn |-> "parseTimeOfDay", done |-> FALSE, timeStr |-> in.timeStr,
        kind |-> in.kind, clock |-> in.clock, result |-> "none" ] :
      in \in ClockInputs \cup OtherInputs }

InitTime ==
    /\ call \in TimeCalls
    /\ sentAlertsFile = MissingFile
    /\ now = FirstInstant
    /\ sheet = <<>>
    /\ holdings = <<>>
    /\ watchlist = <<>>
    /\ run = NoRun
    /\ ledgerCall = NoLedgerCall
    /\ marked = {}
    /\ cycle = NoCycle

ParseTimeOfDay ==
    /\ call.fn = "parseTimeOfDay"
    /\ ~call.done
    /\ call' = [ call EXCEPT !.done = TRUE, !.result = parseTimeOfDay(call.timeStr) ]
    /\ UNCHANGED <<sentAlertsFile, now, sheet, holdings, watchlist, run, ledgerCall, marked, cycle>>

NextTime == ParseTimeOfDay

SpecTime == InitTime /\ [][NextTime]_vars

\* ------------------------------------------------------------------------
\* Reference calendar used to state the claims: calendar days as day numbers
\* since 2025-01-01 (a Wednesday), independent of the Date and string
\* conversions of the code
\* ------------------------------------------------------------------------
HolidayDayNumbers ==
    { 0, 19, 47, 107, 145, 169, 184, 243, 330, 358,
      365, 383, 411, 457, 509, 534, 548, 614, 694, 723 }

\* day numbers 3 and 4 (2025-01-04, 2025-01-05) are a Saturday and a Sunday
IsSaturdayOrSunday(day) == (day % 7) \in {3, 4}

IsMarketDay(day) == ~IsSaturdayOrSunday(day) /\ day \notin HolidayDayNumbers

\* the latest market day strictly before a calendar day
LatestMarketDayBefore(day) ==
    CHOOSE x \in (day - 14) .. (day - 1) :
        IsMarketDay(x) /\ \A y \in (x + 1) .. (day - 1) : ~IsMarketDay(y)

AlertDateDone == call.fn = "determineAlertDateWithOffset" /\ call.done
ScanDone == call.fn = "findDueAlerts" /\ call.done

\* ------------------------------------------------------------------------
\* C1. Postmarket rule: for a postmarket report whose report date is a
\* trading day, the alert date with no offset is the report date itself.
\* ------------------------------------------------------------------------
C1_PostmarketAlertsOnReportDate ==
    ( /\ AlertDateDone
      /\ call.tradingDaysBefore = 0
      /\ call.report.timeOfDay = "postmarket"
      /\ IsMarketDay(UTCDay(call.report.reportDate)) )
    => call.result = call.report.reportDate

\* a postmarket report on Wednesday 2025-01-22 (day 21) was given that day
C1_Witness ==
    /\ AlertDateDone
    /\ call.tradingDaysBefore = 0
    /\ call.report.timeOfDay = "postmarket"
    /\ UTCDay(call.report.reportDate) = 21
    /\ IsMarketDay(21)
    /\ call.result = call.report.reportDate

\* ------------------------------------------------------------------------
\* C2. Premarket/unknown rule: for a premarket or unknown report the alert
\* date with no offset is getPreviousTradingDay(reportDate), the latest
\* trading day strictly before the report date; an unknown report gets the
\* alert date of the same report taken as premarket, for every offset.
\* ------------------------------------------------------------------------
C2_PremarketAlertsOnPreviousTradingDay ==
    ( AlertDateDone /\ call.report.timeOfDay # "postmarket" )
    => /\ call.tradingDaysBefore = 0
          => /\ call.result = getPreviousTradingDay(call.report.reportDate)
             /\ call.result =
                    DateUTC(LatestMarketDayBefore(UTCDay(call.report.reportDate)))
       /\ call.result =
              determineAlertDateWithOffset(
                  [call.report EXCEPT !.timeOfDay = "premarket"],
                  call.tradingDaysBefore)

\* a premarket report on Monday 2025-01-20 (day 19, Martin Luther King Jr.
\* Day) was alerted on Friday 2025-01-17 (day 16)
C2_Witness ==
    /\ AlertDateDone
    /\ call.tradingDaysBefore = 0
    /\ call.report.timeOfDay = "premarket"
    /\ UTCDay(call.report.reportDate) = 19
    /\ 19 \in HolidayDayNumbers
    /\ call.result = DateUTC(16)

\* ------------------------------------------------------------------------
\* C3. Whatever the session, the report date and the offset, the date
\* returned by determineAlertDateWithOffset is a trading day: not a
\* Saturday or Sunday and not in the holiday table.
\* ------------------------------------------------------------------------
C3_AlertDateIsTradingDay ==
    AlertDateDone
    => /\ ~IsSaturdayOrSunday(UTCDay(call.result))
       /\ UTCDay(call.result) \notin HolidayDayNumbers
       /\ YearMonthDay(UTCDay(call.result)) \notin NYSE_HOLIDAYS

\* a postmarket report dated Saturday 2025-01-18 (day 17) with a negative
\* offset was alerted on the Friday before
C3_Witness ==
    /\ AlertDateDone
    /\ call.report.timeOfDay = "postmarket"
    /\ call.tradingDaysBefore < 0
    /\ UTCDay(call.report.reportDate) = 17
    /\ IsSaturdayOrSunday(17)
    /\ call.result = DateUTC(16)

\* ------------------------------------------------------------------------
\* C4. findDueAlerts returns an alert for a report exactly when, for some
\* threshold of the list, the report's alert date falls on the calendar
\* day of today; every alert returned carries today, normalised to
\* midnight, as its alert date.
\* ------------------------------------------------------------------------
DueAt(report, today, alertDaysBefore) ==
    \E j \in DOMAIN alertDaysBefore :
        UTCDay(determineAlertDateWithOffset(report, alertDaysBefore[j])) = UTCDay(today)

C4_DueExactlyWhenAlertDateIsToday ==
    ScanDone
    => /\ \A r \in Range(call.reports) :
              (\E i \in DOMAIN call.result : call.result[i].report = r)
              <=> DueAt(r, call.today, call.alertDaysBefore)
       /\ \A i \in DOMAIN call.result :
              /\ call.result[i].report \in Range(call.reports)
              /\ call.result[i].alertDate = DateUTC(UTCDay(call.today))

\* a scan at a time of day other than midnight kept one of two reports
C4_Witness ==
    /\ ScanDone
    /\ call.today # DateUTC(UTCDay(call.today))
    /\ Len(call.reports) = 2
    /\ Len(call.alertDaysBefore) = 2
    /\ Len(call.result) = 1
    /\ DueAt(call.result[1].report, call.today, call.alertDaysBefore)
    /\ \E r \in Range(call.reports) : ~DueAt(r, call.today, call.alertDaysBefore)

\* ------------------------------------------------------------------------
\* C5. One scan emits at most one alert per input report, also when
\* several thresholds of the list (repeated, zero or negative ones) give
\* the same alert date.
\* ------------------------------------------------------------------------
Occurrences(seq, x) == Cardinality({ i \in DOMAIN seq : seq[i] = x })

C5_AtMostOneAlertPerReport ==
    ScanDone
    => /\ Len(call.result) <= Len(call.reports)
       /\ \A r \in Range(call.reports) :
              Occurrences([ i \in DOMAIN call.result |-> call.result[i].report ], r)
                  <= Occurrences(call.reports, r)

\* two thresholds of the list both gave today for the one report scanned,
\* and one alert was returned
C5_Witness ==
    /\ ScanDone
    /\ Len(call.reports) = 1
    /\ Len(call.alertDaysBefore) = 2
    /\ \A j \in DOMAIN call.alertDaysBefore :
           UTCDay(determineAlertDateWithOffset(call.reports[1], call.alertDaysBefore[j]))
               = UTCDay(call.today)
    /\ Len(call.result) = 1

\* ------------------------------------------------------------------------
\* Reading of the ledger used to state the claims
\* ------------------------------------------------------------------------
\* the threshold of a record: <<>> when it has none
ThresholdOf(record) ==
    IF "alertDaysBefore" \in DOMAIN record THEN <<record.alertDaysBefore>> ELSE <<>>

LedgerKey(record) == <<record.ticker, record.reportDate, ThresholdOf(record)>>

\* some record of the file is for the ticker and the report date of the alert
HasRecord(file, alert) ==
    \E i \in DOMAIN file.records :
        /\ LowerCase(file.records[i].ticker) = LowerCase(alert.report.ticker)
        /\ file.records[i].reportDate = YearMonthDay(UTCDay(alert.report.reportDate))

RunEnded == run.status # "none"

\* ------------------------------------------------------------------------
\* C6. At-most-once delivery across reruns: a run never hands to the
\* notifier an alert whose (ticker, reportDate) an earlier run has sent and
\* recorded in the ledger.
\* ------------------------------------------------------------------------
C6_NoRecordedAlertSentAgain ==
    (RunEnded /\ run.gmailCalled)
    => \A a \in Range(AllAlerts(run.sections)) : ~HasRecord(run.fileBefore, a)

\* ------------------------------------------------------------------------
\* C7. Ledger uniqueness: the persisted ledger never holds two records
\* with the same (ticker, reportDate, thresholdOffset).
\* ------------------------------------------------------------------------
C7_LedgerKeysUnique ==
    \A i, j \in DOMAIN sentAlertsFile.records :
        i # j => LedgerKey(sentAlertsFile.records[i]) # LedgerKey(sentAlertsFile.records[j])

\* ------------------------------------------------------------------------
\* C8. Dedup round trip: once markAlertSent(t, d) has returned,
\* hasAlertBeenSent(t', d) is true for every t' equal to t up to letter
\* case, hasAlertBeenSent without a threshold answers whether the pair was
\* marked, and filterUnsentAlerts without a threshold removes exactly the
\* alerts whose (ticker, reportDate) was marked, keeping the others in
\* their order.
\* ------------------------------------------------------------------------
WasMarked(ticker, reportDate) == <<LowerCase(ticker), UTCDay(reportDate)>> \in marked

NotMarked(alert) == ~WasMarked(alert.report.ticker, alert.report.reportDate)

C8_DedupRoundTrip ==
    /\ (ledgerCall.fn = "markAlertSent" /\ ~ledgerCall.threw)
       => \A t \in LedgerTickers :
              LowerCase(t) = LowerCase(ledgerCall.ticker)
              => hasAlertBeenSent(sentAlertsFile, t, ledgerCall.reportDate, undefined)
    /\ (ledgerCall.fn = "hasAlertBeenSent" /\ ledgerCall.alertDaysBefore = undefined)
       => ledgerCall.result = WasMarked(ledgerCall.ticker, ledgerCall.reportDate)
    /\ (ledgerCall.fn = "filterUnsentAlerts" /\ ledgerCall.alertDaysBefore = undefined)
       => ledgerCall.result = SelectSeq(ledgerCall.dueAlerts, NotMarked)

\* "MSFT" was marked for a date; of two due alerts, the first for "msft" and
\* that date, filterUnsentAlerts returned the second alone
C8_Witness ==
    /\ ledgerCall.fn = "filterUnsentAlerts"
    /\ ledgerCall.alertDaysBefore = undefined
    /\ Len(ledgerCall.dueAlerts) = 2
    /\ ledgerCall.dueAlerts[1].report.ticker = "msft"
    /\ \E i \in DOMAIN sentAlertsFile.records :
           /\ sentAlertsFile.records[i].ticker = "MSFT"
           /\ sentAlertsFile.records[i].reportDate
                  = YearMonthDay(UTCDay(ledgerCall.dueAlerts[1].report.reportDate))
    /\ WasMarked("MSFT", ledgerCall.dueAlerts[1].report.reportDate)
    /\ ledgerCall.result = <<ledgerCall.dueAlerts[2]>>

\* ------------------------------------------------------------------------
\* C9. A daily run that is a dry run, or whose sendAlertEmail returned
\* false or threw, leaves the ledger as it found it.
\* ------------------------------------------------------------------------
C9_NoMarkWithoutConfirmedSend ==
    (RunEnded /\ (run.dryRun \/ ~run.emailSent))
    => sentAlertsFile = run.fileBefore

\* Gmail refused the email of a run that had next-day alerts to mark, and
\* the ledger, which held a record, was left as it was
C9_Witness ==
    /\ run.status = "done"
    /\ ~run.dryRun
    /\ run.gmailCalled
    /\ ~run.emailSent
    /\ Len(nextDayAlerts(run.sections)) > 0
    /\ Len(run.fileBefore.records) > 0
    /\ sentAlertsFile = run.fileBefore

\* ------------------------------------------------------------------------
\* C10. As claimed: after a successful send that was not a dry run, every
\* alert of the email has a matching record in the ledger when the run ends.
\* ------------------------------------------------------------------------
SentForReal == run.status = "done" /\ ~run.dryRun /\ run.emailSent

BothCyclesDone == cycle # NoCycle /\ \A p \in Processes : cycle[p].pc = "done"

\* the change of process p is in the file
ChangeKept(p) ==
    LET op == cycle[p].op
        records == sentAlertsFile.records
    IN  IF op.fn = "markAlertSent"
        THEN \E i \in DOMAIN records :
                 /\ records[i].ticker = op.ticker
                 /\ records[i].reportDate = YearMonthDay(UTCDay(op.reportDate))
                 /\ records[i].sentAt = now
        ELSE \A i \in DOMAIN records :
                 records[i].sentAt >= now - op.daysToKeep * TicksPerDay

C11_NoLostUpdate == BothCyclesDone => \A p \in Processes : ChangeKept(p)

\* ------------------------------------------------------------------------
\* C12. hasAlertBeenSent called with a threshold returns true only if some
\* record of the ledger has the ticker (up to letter case), the report date
\* and that same threshold; a record with another threshold, or with none,
\* does not count.
\* ------------------------------------------------------------------------
RecordMatches(record, ticker, reportDate, threshold) ==
    /\ LowerCase(record.ticker) = LowerCase(ticker)
    /\ record.reportDate = YearMonthDay(UTCDay(reportDate))
    /\ ThresholdOf(record) = threshold

C12_ThresholdMustMatch ==
    (ledgerCall.fn = "hasAlertBeenSent" /\ ledgerCall.alertDaysBefore # undefined
        /\ ledgerCall.result)
    => \E i \in DOMAIN sentAlertsFile.records :
           RecordMatches(sentAlertsFile.records[i], ledgerCall.ticker,
                         ledgerCall.reportDate, ledgerCall.alertDaysBefore)

\* ------------------------------------------------------------------------
\* C13. For every AlertDue findDueAlerts emits, daysUntilReport is the
\* signed count of trading days from today to the report date: weekends and
\* holidays between the two are not counted.
\* ------------------------------------------------------------------------
\* market days after fromDay up to toDay, negative when toDay is earlier
MarketDaysUntil(fromDay, toDay) ==
    IF fromDay <= toDay
    THEN Cardinality({ d \in (fromDay + 1) .. toDay : IsMarketDay(d) })
    ELSE 0 - Cardinality({ d \in toDay .. (fromDay - 1) : IsMarketDay(d) })

C13_DaysUntilReportCountsTradingDays ==
    ScanDone
    => \A i \in DOMAIN call.result :
           call.result[i].daysUntilReport
               = MarketDaysUntil(UTCDay(call.today),
                                 UTCDay(call.result[i].report.reportDate))

\* ------------------------------------------------------------------------
\* C14. End-to-end post-market alerting: the email a daily run sends on a
\* trading day D contains every tracked report of the sheet that is
\* post-market with report date D.  A ticker with an alert in the email was
\* tracked by the run.
\* ------------------------------------------------------------------------
TrackedInRun(ticker) ==
    \E a \in Range(AllAlerts(run.sections)) : a.report.ticker = ticker

InEmail(report) ==
    \E a \in Range(AllAlerts(run.sections)) : a.report = report

C14_PostmarketReportInEmailOfReportDay ==
    (RunEnded /\ ~run.dryRun /\ run.emailSent /\ IsMarketDay(UTCDay(run.today)))
    => \A i \in DOMAIN sheet :
           ( /\ sheet[i].timeOfDay = "postmarket"
             /\ UTCDay(sheet[i].reportDate) = UTCDay(run.today)
             /\ TrackedInRun(sheet[i].ticker) )
           => InEmail(sheet[i])

\* ------------------------------------------------------------------------
\* C15. The sequence findDueAlerts returns is sorted ascending by report
\* date, and the alerts of one report date are in the order their reports
\* have in the input.
\* ------------------------------------------------------------------------
ResultReports == [ i \in DOMAIN call.result |-> call.result[i].report ]

DueInCall(report) == DueAt(report, call.today, call.alertDaysBefore)

\* the elements of the sequence whose report date falls on the day
OnDay(reports, day) ==
    LET ThatDay(r) == UTCDay(r.reportDate) = day
    IN  SelectSeq(reports, ThatDay)

C15_SortedByReportDateStable ==
    ScanDone
    => LET due == SelectSeq(call.reports, DueInCall)
           returned == ResultReports
       IN  /\ \A i, j \in DOMAIN call.result :
                  i < j => UTCDay(call.result[i].report.reportDate)
                               <= UTCDay(call.result[j].report.reportDate)
           /\ \A day \in { UTCDay(r.reportDate) : r \in Range(due) \cup Range(returned) } :
                  OnDay(returned, day) = OnDay(due, day)

\* two different reports of one day were both due, and the scan returned
\* their alerts in the order of the input
C15_Witness ==
    /\ ScanDone
    /\ Len(call.reports) = 2
    /\ Len(call.result) = 2
    /\ call.reports[1] # call.reports[2]
    /\ call.reports[1].reportDate = call.reports[2].reportDate
    /\ ResultReports = call.reports

\* ------------------------------------------------------------------------
\* C16. For k > 0, determineAlertDateWithOffset(report, k) is
\* getPreviousTradingDay applied k times to determineAlertDate(report), the
\* k-th market day before the base alert date; for k = 0 it is the base
\* alert date.
\* ------------------------------------------------------------------------
RECURSIVE PreviousTradingDayTimes(_, _)
PreviousTradingDayTimes(date, k) ==
    IF k = 0 THEN date
    ELSE getPreviousTradingDay(PreviousTradingDayTimes(date, k - 1))

C16_OffsetIsRepeatedPreviousTradingDay ==
    (AlertDateDone /\ call.tradingDaysBefore >= 0)
    => LET base == determineAlertDate(call.report)
           k == call.tradingDaysBefore
       IN  /\ call.result = PreviousTradingDayTimes(base, k)
           /\ k = 0 => call.result = base
           /\ k > 0 => /\ IsMarketDay(UTCDay(call.result))
                       /\ Cardinality({ d \in UTCDay(call.result) .. (UTCDay(base) - 1) :
                                            IsMarketDay(d) }) = k

\* two trading days before a base alert date that follows a long weekend:
\* the result is more than two calendar days earlier
C16_Witness ==
    /\ AlertDateDone
    /\ call.tradingDaysBefore = 2
    /\ call.result = getPreviousTradingDay(getPreviousTradingDay(determineAlertDate(call.report)))
    /\ UTCDay(determineAlertDate(call.report)) - UTCDay(call.result) > 2

\* ------------------------------------------------------------------------
\* C17. A ledger write failure is fatal: when a write of the ledger fails
\* in a daily run, saveSentAlerts throws, markAlertSent lets the error
\* through, and the run ends thrown with a non-zero exit code.
\* ------------------------------------------------------------------------
C17_LedgerWriteFailureIsFatal ==
    (RunEnded /\ run.writeFailed)
    => /\ run.status = "threw"
       /\ run.exitCode # 0

\* the second of two markAlertSent calls of a run failed to write: the first
\* record is in the ledger and the process exited with code 1
C17_Witness ==
    /\ RunEnded
    /\ run.writeFailed
    /\ run.emailSent
    /\ Len(nextDayAlerts(run.sections)) = 2
    /\ Len(sentAlertsFile.records) = Len(run.fileBefore.records) + 1
    /\ run.exitCode = 1

\* the same for cleanupOldAlerts: a failed write is thrown to the caller and
\* the file is left as it was
CleanupWriteFailureIsThrown ==
    (ledgerCall.fn = "cleanupOldAlerts" /\ ledgerCall.writeFailed)
    => /\ ledgerCall.threw
       /\ ledgerCall.after = ledgerCall.before

\* ------------------------------------------------------------------------
\* C18. A ledger read failure is recovered locally: when the store is
\* missing, unreadable, not valid JSON or not an array, loadSentAlerts
\* returns the empty sequence, hasAlertBeenSent returns false and
\* filterUnsentAlerts returns its input unchanged.
\* ------------------------------------------------------------------------
StoreNotAnArrayFile ==
    sentAlertsFile.kind \in {"missing", "unreadable", "invalidJSON", "notArray"}

C18_ReadFailureIsAnEmptyLedger ==
    StoreNotAnArrayFile
    => /\ loadSentAlerts(sentAlertsFile) = <<>>
       /\ ledgerCall.fn = "hasAlertBeenSent" => ledgerCall.result = FALSE
       /\ ledgerCall.fn = "filterUnsentAlerts" => ledgerCall.result = ledgerCall.dueAlerts

\* the store is a JSON object that holds a record of "MSFT" for a date:
\* filterUnsentAlerts returned both due alerts, the first one for "msft" and
\* that date
C18_Witness ==
    /\ sentAlertsFile.kind = "notArray"
    /\ ledgerCall.fn = "filterUnsentAlerts"
    /\ Len(ledgerCall.dueAlerts) = 2
    /\ ledgerCall.dueAlerts[1].report.ticker = "msft"
    /\ \E i \in DOMAIN sentAlertsFile.records :
           sentAlertsFile.records[i].reportDate
               = YearMonthDay(UTCDay(ledgerCall.dueAlerts[1].report.reportDate))
    /\ ledgerCall.result = ledgerCall.dueAlerts

\* ------------------------------------------------------------------------
\* C19. cleanupOldAlerts(n) removes exactly the records whose sentAt is
\* older than now minus n days, leaves the newer records in the persisted
\* ledger in their order, and returns the number of records removed, 0 when
\* none is old enough.
\* ------------------------------------------------------------------------
\* the records of a ledger file
Ledger(file) == IF file.kind = "array" THEN file.records ELSE <<>>

CleanupReturned == ledgerCall.fn = "cleanupOldAlerts" /\ ~ledgerCall.threw

OldAtCleanup(record) ==
    record.sentAt < ledgerCall.clock - ledgerCall.daysToKeep * TicksPerDay

NotOldAtCleanup(record) == ~OldAtCleanup(record)

LedgerCallKeepsRecords ==
    LET before == Ledger(sentAlertsFile)
        after == Ledger(sentAlertsFile')
    IN  /\ Len(before) <= Len(after)
        /\ SubSeq(after, 1, Len(before)) = before
        /\ ledgerCall'.fn \in {"hasAlertBeenSent", "filterUnsentAlerts"}
               => sentAlertsFile' = sentAlertsFile
        /\ ledgerCall'.fn = "markAlertSent"
               => IF ledgerCall'.threw
                  THEN sentAlertsFile' = sentAlertsFile
                  ELSE /\ Len(after) = Len(before) + 1
                       /\ after[Len(after)].reportDate
                              = YearMonthDay(UTCDay(ledgerCall'.reportDate))

C20_LedgerIsAppendOnly == [][LedgerCallKeepsRecords]_vars

\* markAlertSent returned on a ledger of one record: the ledger holds two,
\* the second being the record of the call, with another report date than
\* the first
C20_Witness ==
    /\ ledgerCall.fn = "markAlertSent"
    /\ ~ledgerCall.threw
    /\ Len(Ledger(sentAlertsFile)) = 2
    /\ Ledger(sentAlertsFile)[2].reportDate = YearMonthDay(UTCDay(ledgerCall.reportDate))
    /\ Ledger(sentAlertsFile)[1].reportDate # Ledger(sentAlertsFile)[2].reportDate

\* ------------------------------------------------------------------------
\* C21. A daily run started with --dry-run never reaches
\* gmail.users.messages.send and never calls markAlertSent: the ledger
\* after the run is the ledger before it.
\* ------------------------------------------------------------------------
C21_DryRunHasNoOutwardEffect ==
    (RunEnded /\ run.dryRun)
    => /\ ~run.gmailCalled
       /\ ~run.writeFailed
       /\ sentAlertsFile = run.fileBefore

\* a dry run with recipients and next-day alerts went through Step 6, which
\* reported the email as sent, and left a ledger that held a record
C21_Witness ==
    /\ run.status = "done"
    /\ run.dryRun
    /\ run.emailSent
    /\ ~run.gmailCalled
    /\ Len(nextDayAlerts(run.sections)) > 0
    /\ Len(run.fileBefore.records) > 0
    /\ sentAlertsFile = run.fileBefore

\* ------------------------------------------------------------------------
\* C22. A report whose reportDate is an invalid date does not make
\* findDueAlerts throw: the report yields no alert, and the scan returns
\* what it returns for the list without the invalid reports.
\* ------------------------------------------------------------------------
HasValidDate(report) == report.reportDate # NaN

C22_InvalidDateIsSkipped ==
    ScanDone
    => /\ ~call.threw
       /\ \A i \in DOMAIN call.result : HasValidDate(call.result[i].report)
       /\ call.result = findDueAlerts(SelectSeq(call.reports, HasValidDate),
                                      call.today, call.alertDaysBefore)
       /\ \A r \in Range(call.reports) :
              (HasValidDate(r) /\ DueInCall(r))
              => \E i \in DOMAIN call.result : call.result[i].report = r

\* a report with an invalid date came before a report that was due, and the
\* scan returned the alert of the second alone
C22_Witness ==
    /\ ScanDone
    /\ Len(call.reports) = 2
    /\ ~HasValidDate(call.reports[1])
    /\ HasValidDate(call.reports[2])
    /\ ~call.threw
    /\ Len(call.result) = 1
    /\ call.result[1].report = call.reports[2]

\* ------------------------------------------------------------------------
\* C23. isTradingDay(d) is false for every Saturday and Sunday, false for
\* every day of the holiday table, and true for every other date.
\* ------------------------------------------------------------------------
CalendarDone(fn) == call.fn = fn /\ call.done

C23_TradingDayIsWeekdayOutsideHolidayTable ==
    CalendarDone("isTradingDay")
    => LET day == UTCDay(call.date)
       IN  /\ IsSaturdayOrSunday(day) => call.result = FALSE
           /\ day \in HolidayDayNumbers => call.result = FALSE
           /\ YearMonthDay(day) \in NYSE_HOLIDAYS => call.result = FALSE
           /\ (~IsSaturdayOrSunday(day) /\ day \notin HolidayDayNumbers)
              => call.result = TRUE

\* the evening of Martin Luther King Jr. Day 2025, a Monday, is not a
\* trading day
C23_Witness ==
    /\ CalendarDone("isTradingDay")
    /\ UTCDay(call.date) = 19
    /\ call.date # DateUTC(19)
    /\ ~IsSaturdayOrSunday(19)
    /\ call.result = FALSE

\* ------------------------------------------------------------------------
\* C24. getNextTradingDay(d) returns the earliest trading day strictly
\* after d and getPreviousTradingDay(d) the latest trading day strictly
\* before d; neither returns the day of d, also when d is a trading day.
\* ------------------------------------------------------------------------
C24_NextAndPreviousAreNearestOtherTradingDay ==
    /\ CalendarDone("getNextTradingDay")
       => LET day == UTCDay(call.date)
              got == UTCDay(call.result)
          IN  /\ got > day
              /\ IsMarketDay(got)
              /\ \A x \in (day + 1) .. (got - 1) : ~IsMarketDay(x)
              /\ isTradingDay(call.result)
    /\ CalendarDone("getPreviousTradingDay")
       => LET day == UTCDay(call.date)
              got == UTCDay(call.result)
          IN  /\ got < day
              /\ IsMarketDay(got)
              /\ \A x \in (got + 1) .. (day - 1) : ~IsMarketDay(x)
              /\ isTradingDay(call.result)

\* from Friday 2025-01-17, a trading day, the next trading day is Tuesday
\* the 21st: the weekend and the holiday of the 20th are passed over
C24_Witness ==
    /\ CalendarDone("getNextTradingDay")
    /\ UTCDay(call.date) = 16
    /\ IsMarketDay(16)
    /\ UTCDay(call.result) = 20

\* from Tuesday 2025-01-21 the previous trading day is Friday the 17th
C24_WitnessPrevious ==
    /\ CalendarDone("getPreviousTradingDay")
    /\ UTCDay(call.date) = 20
    /\ IsMarketDay(20)
    /\ UTCDay(call.result) = 16

\* ------------------------------------------------------------------------
\* C25. tradingDaysUntil(d, d) = 0 for every date; tradingDaysUntil(a, b) =
\* -tradingDaysUntil(b, a) when a and b are both trading days; when b is
\* after a the result is the number of trading days in (a, b], start
\* excluded and end included, so it is 1 for b = getNextTradingDay(a) and
\* 0 when no trading day lies in (a, b]; when b is before a it is minus the
\* number of trading days in [b, a).
\* ------------------------------------------------------------------------
MarketDaysIn(first, last) == Cardinality({ x \in first .. last : IsMarketDay(x) })

TimeDone == call.fn = "parseTimeOfDay" /\ call.done

MinutesSinceMidnight == call.clock[1] * 60 + call.clock[2]

C27_RulesInPriorityOrder ==
    TimeDone
    => /\ call.result \in TimeOfDay
       /\ call.kind = "empty" => call.result = "unknown"
       /\ call.kind \in {"pre", "both"} => call.result = "premarket"
       /\ call.kind = "post" => call.result = "postmarket"
       /\ call.kind = "clock"
          => call.result = categorizeTime(call.clock[1], call.clock[2])
       /\ call.kind = "other" => call.result = "unknown"

\* "premarket/postmarket" holds an indicator of each session and is premarket
C27_Witness ==
    /\ TimeDone
    /\ call.kind = "both"
    /\ includes(call.timeStr[1], <<"p", "o", "s", "t">>)
    /\ includes(call.timeStr[1], <<"p", "r", "e">>)
    /\ call.result = "premarket"

\* ------------------------------------------------------------------------
\* C28. For a fixed report, determineAlertDateWithOffset(report, k) is
\* strictly decreasing in k over k >= 0; hence two different non-negative
\* thresholds of one report never fall on the same calendar day, and at
\* most one of them can have its alert date on a given today.
\* ------------------------------------------------------------------------
NonNegativeOffsets == 0 .. (MaxOffset + 1)

C28_AlertDateStrictlyDecreasingInOffset ==
    (AlertDateDone /\ call.tradingDaysBefore >= 0)
    => /\ \A j \in NonNegativeOffsets :
              LET other == determineAlertDateWithOffset(call.report, j)
              IN  /\ j < call.tradingDaysBefore
                     => (call.result < other /\ UTCDay(call.result) < UTCDay(other))
                  /\ j > call.tradingDaysBefore
                     => (other < call.result /\ UTCDay(other) < UTCDay(call.result))
       /\ \A day \in (FirstReportDay - 14) .. (FirstReportDay + NumReportDays) :
              Cardinality({ j \in NonNegativeOffsets :
                  UTCDay(determineAlertDateWithOffset(call.report, j)) = day }) <= 1

\* a postmarket report on Tuesday 2025-01-21: no offset gives the 21st, one
\* trading day before is Friday the 17th, two are Thursday the 16th
C28_Witness ==
    /\ AlertDateDone
    /\ call.tradingDaysBefore = 1
    /\ call.report.timeOfDay = "postmarket"
    /\ UTCDay(call.report.reportDate) = 20
    /\ determineAlertDateWithOffset(call.report, 0) = DateUTC(20)
    /\ call.result = DateUTC(16)
    /\ determineAlertDateWithOffset(call.report, 2) = DateUTC(15)

\* ------------------------------------------------------------------------
\* C29. For a report whose report date is a trading day and an offset
\* k >= 0, the number of trading days from the alert date to the report
\* date, tradingDaysUntil(determineAlertDateWithOffset(report, k),
\* reportDate), is k for a postmarket report and k + 1 for a premarket or
\* unknown report.
\* ------------------------------------------------------------------------
C29_TradingDaysFromAlertToReport ==
    ( /\ AlertDateDone
      /\ call.tradingDaysBefore >= 0
      /\ IsMarketDay(UTCDay(call.report.reportDate)) )
    => LET expected == IF call.report.timeOfDay = "postmarket"
                       THEN call.tradingDaysBefore
                       ELSE call.tradingDaysBefore + 1
       IN  /\ tradingDaysUntil(call.result, call.report.reportDate) = expected
           /\ MarketDaysIn(UTCDay(call.result) + 1, UTCDay(call.report.reportDate))
                  = expected

\* a premarket report on Tuesday 2025-01-21 with offset 1: the alert date is
\* Thursday the 16th, two trading days before the report
C29_Witness ==
    /\ AlertDateDone
    /\ call.tradingDaysBefore = 1
    /\ call.report.timeOfDay = "premarket"
    /\ UTCDay(call.report.reportDate) = 20
    /\ call.result = DateUTC(15)
    /\ tradingDaysUntil(call.result, call.report.reportDate) = 2

\* ------------------------------------------------------------------------
\* C30. An alert is never scheduled after the report: for every report,
\* also one dated on a weekend or a holiday, and every offset k,
\* determineAlertDateWithOffset(report, k) is on or before the report date,
\* and strictly before it for a premarket or unknown report; findDueAlerts
\* returns no alert when today is not a trading day.
\* ------------------------------------------------------------------------
C30_AlertNeverAfterReport ==
    /\ AlertDateDone
       => /\ call.result <= call.report.reportDate
          /\ UTCDay(call.result) <= UTCDay(call.report.reportDate)
          /\ call.report.timeOfDay # "postmarket"
             => UTCDay(call.result) < UTCDay(call.report.reportDate)
    /\ (ScanDone /\ ~IsMarketDay(UTCDay(call.today)))
       => call.result = <<>>

\* a postmarket report dated on the holiday of Monday 2025-01-20, with a
\* negative offset: the alert date is Friday the 17th
C30_Witness ==
    /\ AlertDateDone
    /\ call.tradingDaysBefore = -1
    /\ call.report.timeOfDay = "postmarket"
    /\ UTCDay(call.report.reportDate) = 19
    /\ ~IsMarketDay(19)
    /\ call.result = DateUTC(16)

\* a scan on a Saturday of two reports with two thresholds returned nothing
C30_WitnessScan ==
    /\ ScanDone
    /\ IsSaturdayOrSunday(UTCDay(call.today))
    /\ Len(call.reports) = 2
    /\ Len(call.alertDaysBefore) = 2
    /\ call.result = <<>>

====
